---- MODULE Spec2Model ----
(***************************************************************************)
(* Model of the web content-acquisition engine of the repository:          *)
(*   backend_app/services/scraper.py  (AdvancedWebScraper)                 *)
(*   backend_app/api/v1.py            (POST /scrape, POST /scrape/batch,   *)
(*                                     POST /scrape/government, POST       *)
(*                                     /query, GET /document, POST /ingest)*)
(*                                                                         *)
(* Coroutines run on one asyncio event loop: exactly one coroutine runs at *)
(* a time (variable running) and it keeps the loop until it reaches an     *)
(* await that really suspends or until it finishes.  Coroutine 0 is the    *)
(* request handler; coroutines 1..n are the tasks that asyncio.gather      *)
(* creates in scrape_multiple_urls.  call[c] is the activation of          *)
(* AdvancedWebScraper.scrape_url that runs on coroutine c.                 *)
(*                                                                         *)
(* A URL is a sequence of lexemes, e.g. <<"https","://","ugc.gov.in","/",  *)
(* "report",".pdf">>; urlparse and the regular expressions of the source   *)
(* are evaluated on that sequence.                                         *)
(***************************************************************************)
EXTENDS Integers, Sequences, FiniteSets, TLC

\* ------------------------------------------------------------------ bounds
MaxUrls == 2

MaxConc == 2

MaxRetries == 3

MaxCancels == 1

MaxJobs == 2

\* urllib3 Retry(total=3) mounted on the shared requests session
RetryTotal == 3

\* LLMController.process_query(self, query, context=None): the positional
\* parameters it accepts besides self
ProcessQueryParams == 2

\* ------------------------------------------------------------------ state
VARIABLES
    SELENIUM_AVAILABLE,     \* module flag, set by the import at scraper.py:40-50
    PLAYWRIGHT_AVAILABLE,   \* module flag, set by the import at scraper.py:52-56
    call,                   \* call[c]: activation of scrape_url on coroutine c
    ready,                  \* event loop: FIFO queue of coroutines ready to run
    running,                \* event loop: the coroutine that runs now, or NoCo
    sem,                    \* the asyncio.Semaphore of scrape_multiple_urls
    batch,                  \* scrape_multiple_urls and its request handler
    gathered,               \* asyncio.gather: result slot of every child task
    completed,              \* order in which the child tasks finished
    handler,                \* POST /scrape handler (v1.scrape_url)
    cancels,                \* number of task cancellations delivered so far
    ex,                     \* one parsed document and what the extractors returned for it
    api,                    \* handlers of POST /query, GET /document/{id}, POST /ingest
    inv                     \* invocations of scrape_multiple_urls that run at the same time

vars == <<SELENIUM_AVAILABLE, PLAYWRIGHT_AVAILABLE, call, ready, running, sem,
          batch, gathered, completed, handler, cancels, ex, api, inv>>

NoCo == MaxUrls + 1

Coros == 0..MaxUrls

Tasks == 1..MaxUrls

\* ------------------------------------------------------------------ URLs
U_plain == <<"https", "://", "example.org", "/", "page">>

U_gov == <<"https", "://", "ugc.gov.in", "/", "notices">>

U_govpdf == <<"https", "://", "ugc.gov.in", "/", "report", ".pdf">>

U_pdf == <<"https", "://", "example.org", "/", "report", ".PDF">>

U_govpath == <<"https", "://", "example.org", "/", "ugc.gov.in">>

U_edu == <<"https", "://", "education.gov.in", "/">>

U_bad == <<"not a url">>

U_nohost == <<"https", ":", "/", "page">>

U_empty == <<>>

Urls == {U_plain, U_gov, U_edu, U_govpdf, U_pdf, U_govpath, U_bad, U_nohost, U_empty}

\* urlparse(url).scheme: the text before the first ":" when the URL has one
Scheme(url) ==
    IF Len(url) >= 2 /\ url[2] \in {"://", ":"} THEN url[1] ELSE ""

\* urlparse(url).netloc: the text between "//" and the next "/"
Netloc(url) ==
    IF Len(url) >= 3 /\ url[2] = "://" /\ url[3] # "/" THEN url[3] ELSE ""

IsValidUrl_SchemeOnly(url) == Scheme(url) # ""

\* _is_valid_url: all([result.scheme, result.netloc])
IsValidUrl(url) == Scheme(url) # "" /\ Netloc(url) # ""

\* re.IGNORECASE on the lexemes the patterns mention
Lower(lex) == IF lex = ".PDF" THEN ".pdf" ELSE lex

\* pdf_patterns: \.pdf$ , /pdf/ , download.*\.pdf , document.*\.pdf
MatchesPdfPattern(s) ==
    \/ Len(s) >= 1 /\ Lower(s[Len(s)]) = ".pdf"
    \/ \E i \in 1..Len(s) : i + 2 <= Len(s) /\ s[i] = "/" /\ Lower(s[i+1]) = "pdf" /\ s[i+2] = "/"
    \/ \E i, j \in 1..Len(s) : i < j /\ Lower(s[i]) \in {"download", "document"} /\ Lower(s[j]) = ".pdf"

GovHosts == {"indiacode.nic.in", "ugc.gov.in", "aicte-india.org", "education.gov.in", "egazette.nic.in"}

\* gov_patterns: re.search(pattern, url) over the whole URL string
MatchesGovPattern(url) == \E i \in 1..Len(url) : Lower(url[i]) \in GovHosts

DetermineScrapingMethod_GovFirst(url, selenium, playwright) ==
    IF MatchesGovPattern(url)
    THEN IF selenium THEN "selenium"
         ELSE IF playwright THEN "playwright" ELSE "requests"
    ELSE IF MatchesPdfPattern(url) THEN "pdf" ELSE "requests"

DetermineScrapingMethod_PlaywrightFirst(url, selenium, playwright) ==
    IF MatchesPdfPattern(url) THEN "pdf"
    ELSE IF MatchesGovPattern(url)
         THEN IF playwright THEN "playwright"
              ELSE IF selenium THEN "selenium" ELSE "requests"
         ELSE "requests"

\* _determine_scraping_method
DetermineScrapingMethod(url, selenium, playwright) ==
    IF MatchesPdfPattern(url) THEN "pdf"
    ELSE IF MatchesGovPattern(url)
         THEN IF selenium THEN "selenium"
              ELSE IF playwright THEN "playwright" ELSE "requests"
         ELSE "requests"

\* the method argument: the documented values and one unrecognised string
Methods == {"auto", "selenium", "playwright", "requests", "pdf", "curl"}

\* v1.scrape_multiple_urls: "Maximum 50 URLs allowed per batch request"
MaxBatchSize == 50

\* ------------------------------------------------------------------ pages
\* A parsed document (the BeautifulSoup tree) as far as the extractors read
\* it: the text of <title>, the <h1> elements, the text nodes, the <img> and
\* the <a href> elements, in document order.  Every element carries the kind
\* of the enclosing element that matters to _extract_text_content ("body"
\* when none does).  "@" stands for a character outside the set _clean_text
\* keeps; an <img> without src and an <a href=""> have the reference <<>>.
El(v, region) == [v |-> v, region |-> region]

DocPolicy ==
    [title |-> "Policy",
     h1s |-> <<El("Heading", "header")>>,
     text |-> <<El("Heading", "header"), El("Section 3", "body"), El("@", "body"),
                El("Section 3", "body"), El("SECTION 3", "body"), El("Menu", "nav")>>,
     imgs |-> <<El(<<"logo.png">>, "header"), El(<<"a.png">>, "body"), El(<<>>, "body")>>,
     hrefs |-> <<El(<<"home">>, "nav"), El(<<"doc", ".pdf">>, "body"),
                 El(<<"about">>, "body"), El(<<"terms", ".pdf">>, "footer")>>]

DocBare == [title |-> "", h1s |-> <<>>, text |-> <<>>, imgs |-> <<>>, hrefs |-> <<>>]

\* the page each site of the model serves
PageAt(url) == IF Netloc(url) = "ugc.gov.in" \/ url = U_plain THEN DocPolicy ELSE DocBare

\* the text the extractors find in the PDF at url
PdfTextAt(url) == IF Netloc(url) = "ugc.gov.in" THEN <<"Rule 7", "@", "Circular No. 4">> ELSE <<>>

\* urljoin(base_url, ref) for a relative reference
Urljoin(base, ref) == <<Scheme(base), "://", Netloc(base), "/">> \o ref

\* soup(["script", "style", "nav", "footer", "header"])
Removed == {"script", "style", "nav", "footer", "header"}

Kept(e) == e.region \notin Removed

\* "for script in soup([...]): script.decompose()": the tree after the loop;
\* the elements are taken out of the very tree the caller holds
Decompose(soup) ==
    [soup EXCEPT !.h1s = SelectSeq(@, Kept), !.text = SelectSeq(@, Kept),
                 !.imgs = SelectSeq(@, Kept), !.hrefs = SelectSeq(@, Kept)]

\* _extract_title: <title>, else the first <h1>, else "Untitled"
ExtractTitle(soup) ==
    IF soup.title # "" THEN soup.title
    ELSE IF soup.h1s # <<>> THEN soup.h1s[1].v ELSE "Untitled"

\* _extract_text_content: the value returned (the text that is left after the
\* decompose loop, as a sequence of words)
ExtractTextContent(soup) ==
    LET rest == Decompose(soup).text
    IN  [k \in 1..Len(rest) |-> rest[k].v]

\* "if src:" / "if href:"
HasRef(e) == e.v # <<>>

\* _extract_images
ExtractImages(soup, base) ==
    LET sel == SelectSeq(soup.imgs, HasRef)
    IN  [k \in 1..Len(sel) |-> Urljoin(base, sel[k].v)]

\* _extract_links
ExtractLinks(soup, base) ==
    LET sel == SelectSeq(soup.hrefs, HasRef)
    IN  [k \in 1..Len(sel) |-> Urljoin(base, sel[k].v)]

IsPdfHref(e) == HasRef(e) /\ MatchesPdfPattern(e.v)

\* _extract_pdfs
ExtractPdfs(soup, base) ==
    LET sel == SelectSeq(soup.hrefs, IsPdfHref)
    IN  [k \in 1..Len(sel) |-> Urljoin(base, sel[k].v)]

\* metadata: the keys of the dictionary, the value of 'method' and the value
\* of 'legal_references' (a list, kept as the number of times each string is
\* in it: the order of list(set(...)) is not fixed by the language)
NoMeta == [keys |-> {}, method |-> "", legal_references |-> <<>>]

NoContent ==
    [title |-> "", content |-> <<>>, images |-> <<>>, links |-> <<>>,
     pdfs |-> <<>>, metadata |-> NoMeta]

\* the dictionary the HTML strategies return: the five extractors are called
\* in the order title, content, images, links, pdfs on one soup, so the last
\* three read the tree that _extract_text_content has left
HtmlContent(doc, url, metaKeys, metaMethod) ==
    LET soup == Decompose(doc)
    IN  [title |-> ExtractTitle(doc), content |-> ExtractTextContent(doc),
         images |-> ExtractImages(soup, url), links |-> ExtractLinks(soup, url),
         pdfs |-> ExtractPdfs(soup, url),
         metadata |-> [keys |-> metaKeys, method |-> metaMethod, legal_references |-> <<>>]]

IsKeptToken(t) == t # "@"

\* _clean_text
CleanText(text) == SelectSeq(text, IsKeptToken)

\* act_patterns of _process_government_content, by the word each begins with
ActPatterns == <<"Act No", "Section", "Rule", "Regulation">>

\* legal_patterns of v1.scrape_government_sites: the same four and two more
LegalPatterns == ActPatterns \o <<"Notification No", "Circular No">>

\* the pattern (matched with re.IGNORECASE) that a word of the text matches
PatternOf(t) ==
    CASE t = "Act No. 5" -> "Act No"
      [] t \in {"Section 3", "SECTION 3"} -> "Section"
      [] t = "Rule 7" -> "Rule"
      [] t = "Regulation 2" -> "Regulation"
      [] t = "Circular No. 4" -> "Circular No"
      [] OTHER -> "none"

\* re.findall(pattern, text, re.IGNORECASE)
FindAll(p, text) ==
    LET Hit(t) == PatternOf(t) = p
    IN  SelectSeq(text, Hit)

\* "for pattern in patterns: found.extend(re.findall(pattern, text, ...))"
RECURSIVE FoundPatterns(_, _)
FoundPatterns(patterns, text) ==
    IF patterns = <<>> THEN <<>>
    ELSE FindAll(Head(patterns), text) \o FoundPatterns(Tail(patterns), text)

\* the list itself: every string with the number of times it occurs
ListOf(found) ==
    [t \in {found[k] : k \in DOMAIN found} |->
        Cardinality({k \in DOMAIN found : found[k] = t})]

\* list(set(found)): every string once
ListOfSet(found) == [t \in {found[k] : k \in DOMAIN found} |-> 1]

ProcessGovernmentContent_NoDedupe(content) ==
    LET found == FoundPatterns(ActPatterns, content.content)
        m1 == [content.metadata EXCEPT !.keys = @ \cup {"source_type"}]
        m2 == IF content.content # <<>> /\ found # <<>>
              THEN [m1 EXCEPT !.keys = @ \cup {"legal_references"},
                              !.legal_references = ListOf(found)]
              ELSE m1
    IN  [content EXCEPT !.metadata = m2]

\* _process_government_content
ProcessGovernmentContent(content) ==
    LET found == FoundPatterns(ActPatterns, content.content)
        m1 == [content.metadata EXCEPT !.keys = @ \cup {"source_type"}]
        m2 == IF content.content # <<>> /\ found # <<>>
              THEN [m1 EXCEPT !.keys = @ \cup {"legal_references"},
                              !.legal_references = ListOfSet(found)]
              ELSE m1
    IN  [content EXCEPT !.metadata = m2]

\* _post_process_content
PostProcessContent(content, url) ==
    LET cleaned == IF content.content # <<>>
                   THEN [content EXCEPT !.content = CleanText(@)]
                   ELSE content
    IN  IF MatchesGovPattern(url) THEN ProcessGovernmentContent(cleaned) ELSE cleaned

\* ------------------------------------------------------------------ results
NoResult == [kind |-> "none"]

\* the ScrapedContent of the success path (timestamp and processing_time,
\* which no operation reads, are left out)
SuccessResult(url, content, method) ==
    [kind |-> "ScrapedContent", url |-> url, title |-> content.title,
     content |-> content.content, images |-> content.images,
     links |-> content.links, pdfs |-> content.pdfs,
     metadata |-> content.metadata, status |-> "success", method_used |-> method]

ErrorResult_KeepLinks(url, content, exc, method) ==
    [kind |-> "ScrapedContent", url |-> url, title |-> "Error",
     content |-> <<"Scraping failed:", exc>>, images |-> content.images,
     links |-> content.links, pdfs |-> content.pdfs,
     metadata |-> NoMeta, status |-> "error", method_used |-> method]

\* the ScrapedContent of the except branch
ErrorResult(url, content, exc, method) ==
    [kind |-> "ScrapedContent", url |-> url, title |-> "Error",
     content |-> <<"Scraping failed:", exc>>, images |-> <<>>,
     links |-> <<>>, pdfs |-> <<>>,
     metadata |-> NoMeta, status |-> "error", method_used |-> method]

ExceptionResult(exc) == [kind |-> "exception", exc |-> exc]

\* exception classes derived from Exception, as raised by the stages
ExceptionKinds ==
    {"ValueError", "HTTPError", "RequestException", "ImportError",
     "WebDriverException", "PlaywrightError", "PdfReadError",
     "PDFProcessingFailed", "AttemptError"}

\* asyncio.CancelledError derives from BaseException only
BaseExceptionKinds == {"CancelledError"}

Caught_OnlyValueError(exc) == exc = "ValueError"

\* the clause "except Exception as e" of scrape_url
Caught(exc) == exc \in ExceptionKinds

\* ------------------------------------------------------------------ calls
IdleCall ==
    [pc |-> "none", url |-> <<>>, arg |-> "auto", method |-> "auto",
     strategy |-> "none", classified |-> FALSE, networked |-> FALSE, tries |-> 0,
     io |-> "none", extracted |-> FALSE, content |-> NoContent, exc |-> "none",
     browser |-> "none", holds |-> FALSE, result |-> NoResult,
     trail |-> <<>>, client |-> "none"]

\* entry of scrape_url(url, method)
StartCall(old, url, method) ==
    [IdleCall EXCEPT !.pc = "validate", !.url = url, !.arg = method,
                     !.method = method, !.holds = old.holds]

IdleHandler ==
    [pc |-> "idle", url |-> <<>>, method |-> "auto", max_retries |-> 0,
     attempt |-> 0, calls |-> 0, result |-> NoResult, last_error |-> "none",
     sleeps |-> <<>>, status_code |-> 0, detail |-> "none", extract_acts |-> TRUE,
     route |-> "none"]

IdleBatch ==
    [pc |-> "idle", urls |-> <<>>, max_concurrent |-> 0, valid_results |-> <<>>,
     status_code |-> 0, successful |-> 0, failed |-> 0]

Pending == [kind |-> "pending"]

\* what one round of the five extractors returned
NoExtract == [title |-> "", content |-> <<>>, images |-> <<>>, links |-> <<>>, pdfs |-> <<>>]

\* no document is being extracted
IdleEx == [pc |-> "idle", doc |-> DocBare, soup |-> DocBare, round |-> 0,
           cur |-> NoExtract, out |-> <<>>]

\* the response body of the three handlers (a field a handler does not set
\* keeps "")
NoBody ==
    [answer |-> "", risk_assessment |-> "", language |-> "", kg_traversal |-> "",
     controller_iterations |-> 0, id |-> "", title |-> "", jobId |-> 0,
     status |-> "", error |-> ""]

\* no request is being handled; jobs counts the ingestion jobs created
IdleApi ==
    [pc |-> "idle", route |-> "none", query |-> "", simulate_failure |-> FALSE,
     model |-> "None", thinking_mode |-> "None", document_id |-> "",
     language |-> "", dense |-> <<>>, sparse |-> <<>>, kg_result |-> "",
     status_code |-> 0, body |-> NoBody, jobs |-> 0]

\* the requests that can be in scrape_multiple_urls at the same time
Invocations == {1, 2}

\* no invocation of scrape_multiple_urls is running and POST /scrape is not
\* in scrape_url; sem[b] is the semaphore object invocation b created
IdleInv ==
    [sem |-> [b \in Invocations |-> 0],
     run |-> [b \in Invocations |->
                [pc |-> "idle", max_concurrent |-> 0, n |-> 0,
                 task |-> [i \in Tasks |-> "none"]]],
     direct |-> "none"]

Init ==
    /\ SELENIUM_AVAILABLE \in BOOLEAN
    /\ PLAYWRIGHT_AVAILABLE \in BOOLEAN
    /\ call = [c \in Coros |-> IdleCall]
    /\ ready = <<>>
    /\ running = NoCo
    /\ sem = [value |-> 0, waiters |-> <<>>]
    /\ batch = IdleBatch
    /\ gathered = [i \in Tasks |-> Pending]
    /\ completed = <<>>
    /\ handler = IdleHandler
    /\ cancels = 0
    /\ ex = IdleEx
    /\ api = IdleApi
    /\ inv = IdleInv

Flags == <<SELENIUM_AVAILABLE, PLAYWRIGHT_AVAILABLE>>

Idle == handler.pc = "idle" /\ batch.pc = "idle"

\* ------------------------------------------------------------------ event loop
\* The loop takes the next ready coroutine when no coroutine is running.
LoopPick ==
    /\ running = NoCo
    /\ ready # <<>>
    /\ running' = Head(ready)
    /\ ready' = Tail(ready)
    /\ UNCHANGED <<Flags, ex, api, inv, call, sem, batch, gathered, completed, handler, cancels>>

\* An awaited operation of coroutine c (browser start, navigation, ...) ends
\* and the coroutine becomes ready; whether it ended well shows when the
\* coroutine goes on.  A semaphore wait is ended by release only.
IoComplete(c) ==
    /\ call[c].io = "pending"
    /\ call[c].pc # "sem_wait"
    /\ call' = [call EXCEPT ![c].io = "done"]
    /\ ready' = Append(ready, c)
    /\ UNCHANGED <<Flags, ex, api, inv, running, sem, batch, gathered, completed, handler, cancels>>

\* ------------------------------------------------------------------ scrape_url
\* "if not self._is_valid_url(url): raise ValueError"
Validate(c) ==
    /\ running = c
    /\ call[c].pc = "validate"
    /\ call' = IF IsValidUrl(call[c].url)
               THEN [call EXCEPT ![c].pc = "classify"]
               ELSE [call EXCEPT ![c].pc = "except", ![c].exc = "ValueError"]
    /\ UNCHANGED <<Flags, ex, api, inv, ready, running, sem, batch, gathered, completed, handler, cancels>>

Classify_Always(c) ==
    /\ running = c
    /\ call[c].pc = "classify"
    /\ call' = [call EXCEPT ![c].pc = "dispatch", ![c].classified = TRUE,
                            ![c].method = DetermineScrapingMethod(call[c].url,
                                              SELENIUM_AVAILABLE, PLAYWRIGHT_AVAILABLE)]
    /\ UNCHANGED <<Flags, ex, api, inv, ready, running, sem, batch, gathered, completed, handler, cancels>>

\* "if method == 'auto': method = self._determine_scraping_method(url)"
Classify(c) ==
    /\ running = c
    /\ call[c].pc = "classify"
    /\ call' = IF call[c].method = "auto"
               THEN [call EXCEPT ![c].pc = "dispatch", ![c].classified = TRUE,
                                 ![c].method = DetermineScrapingMethod(call[c].url,
                                                   SELENIUM_AVAILABLE, PLAYWRIGHT_AVAILABLE)]
               ELSE [call EXCEPT ![c].pc = "dispatch"]
    /\ UNCHANGED <<Flags, ex, api, inv, ready, running, sem, batch, gathered, completed, handler, cancels>>

\* the if/elif chain that picks the strategy function
StrategyFor(method, selenium, playwright) ==
    IF method = "selenium" /\ selenium THEN "selenium"
    ELSE IF method = "playwright" /\ playwright THEN "playwright"
    ELSE IF method = "pdf" THEN "pdf"
    ELSE "requests"

FirstPc(strategy) ==
    CASE strategy = "selenium" -> "se_launch"
      [] strategy = "playwright" -> "pw_start"
      [] strategy = "pdf" -> "pdf_get"
      [] OTHER -> "rq_get"

Dispatch(c) ==
    /\ running = c
    /\ call[c].pc = "dispatch"
    /\ LET st == StrategyFor(call[c].method, SELENIUM_AVAILABLE, PLAYWRIGHT_AVAILABLE)
       IN  call' = [call EXCEPT ![c].pc = FirstPc(st), ![c].strategy = st]
    /\ UNCHANGED <<Flags, ex, api, inv, ready, running, sem, batch, gathered, completed, handler, cancels>>

\* self.session.get(...) through the HTTPAdapter with Retry(total=3): a
\* transport failure or a status of status_forcelist is tried again by the
\* adapter (blocking) until the retries are used up; every try is one HTTP
\* request.  raise_for_status() raises for any other non-2xx status.
HttpTry_OwnSession(c, okRec, failRec) ==
    \/ call' = [call EXCEPT ![c] = [okRec EXCEPT !.networked = TRUE, !.tries = 0,
                                                 !.client = "session"]]
    \/ call' = [call EXCEPT ![c] = [failRec EXCEPT !.networked = TRUE, !.tries = 0,
                                                   !.client = "session",
                                                   !.exc = "HTTPError"]]
    \/ /\ call[c].tries < RetryTotal
       /\ call' = [call EXCEPT ![c].networked = TRUE, ![c].tries = @ + 1,
                               ![c].client = "session"]
    \/ /\ call[c].tries = RetryTotal
       /\ call' = [call EXCEPT ![c] = [failRec EXCEPT !.networked = TRUE, !.tries = 0,
                                                      !.client = "session",
                                                      !.exc = "RequestException"]]

\* The client is self.session, the one Session made in __init__.
HttpTry(c, okRec, failRec) ==
    \/ call' = [call EXCEPT ![c] = [okRec EXCEPT !.networked = TRUE, !.tries = 0,
                                                 !.client = "self.session"]]
    \/ call' = [call EXCEPT ![c] = [failRec EXCEPT !.networked = TRUE, !.tries = 0,
                                                   !.client = "self.session",
                                                   !.exc = "HTTPError"]]
    \/ /\ call[c].tries < RetryTotal
       /\ call' = [call EXCEPT ![c].networked = TRUE, ![c].tries = @ + 1,
                               ![c].client = "self.session"]
    \/ /\ call[c].tries = RetryTotal
       /\ call' = [call EXCEPT ![c] = [failRec EXCEPT !.networked = TRUE, !.tries = 0,
                                                      !.client = "self.session",
                                                      !.exc = "RequestException"]]

\* _scrape_with_requests: GET, parse, extract; all of it blocking
ScrapeWithRequests(c) ==
    /\ running = c
    /\ call[c].pc = "rq_get"
    /\ HttpTry(c, [call[c] EXCEPT !.pc = "postprocess", !.extracted = TRUE,
                      !.content = HtmlContent(PageAt(call[c].url), call[c].url,
                            {"status_code", "content_type", "content_length"}, "")],
               [call[c] EXCEPT !.pc = "except"])
    /\ UNCHANGED <<Flags, ex, api, inv, ready, running, sem, batch, gathered, completed, handler, cancels>>

\* _scrape_pdf, download: "response = self.session.get(url, timeout=30)"
PdfGet(c) ==
    /\ running = c
    /\ call[c].pc = "pdf_get"
    /\ HttpTry(c, [call[c] EXCEPT !.pc = "pdf_plumber", !.trail = Append(@, "download")],
               [call[c] EXCEPT !.pc = "pdf_wrap", !.trail = Append(@, "download_failed")])
    /\ UNCHANGED <<Flags, ex, api, inv, ready, running, sem, batch, gathered, completed, handler, cancels>>

\* the dictionary _scrape_pdf returns
PdfContent(url, text, metaKeys, metaMethod) ==
    [title |-> "pdf-title", content |-> text, images |-> <<>>, links |-> <<>>,
     pdfs |-> <<url>>,
     metadata |-> [keys |-> metaKeys, method |-> metaMethod, legal_references |-> <<>>]]

PdfPlumber_NoFallback(c) ==
    /\ running = c
    /\ call[c].pc = "pdf_plumber"
    /\ \/ call' = [call EXCEPT ![c].pc = "postprocess", ![c].extracted = TRUE,
                        ![c].trail = Append(@, "pdfplumber"),
                        ![c].content = PdfContent(call[c].url, PdfTextAt(call[c].url),
                                          {"method", "pdf_metadata", "page_count"}, "pdf")]
       \/ call' = [call EXCEPT ![c].pc = "pdf_wrap", ![c].exc = "PDFSyntaxError",
                               ![c].trail = Append(@, "pdfplumber_failed")]
    /\ UNCHANGED <<Flags, ex, api, inv, ready, running, sem, batch, gathered, completed, handler, cancels>>

\* _scrape_pdf, first extractor (pdfplumber); on any failure the second is tried
PdfPlumber(c) ==
    /\ running = c
    /\ call[c].pc = "pdf_plumber"
    /\ \/ call' = [call EXCEPT ![c].pc = "postprocess", ![c].extracted = TRUE,
                        ![c].trail = Append(@, "pdfplumber"),
                        ![c].content = PdfContent(call[c].url, PdfTextAt(call[c].url),
                                          {"method", "pdf_metadata", "page_count"}, "pdf")]
       \/ call' = [call EXCEPT ![c].pc = "pdf_pypdf2",
                               ![c].trail = Append(@, "pdfplumber_failed")]
    /\ UNCHANGED <<Flags, ex, api, inv, ready, running, sem, batch, gathered, completed, handler, cancels>>

\* _scrape_pdf, second extractor (PyPDF2), inside the handler of the first
PdfPyPDF2(c) ==
    /\ running = c
    /\ call[c].pc = "pdf_pypdf2"
    /\ \/ call' = [call EXCEPT ![c].pc = "postprocess", ![c].extracted = TRUE,
                        ![c].trail = Append(@, "PyPDF2"),
                        ![c].content = PdfContent(call[c].url, PdfTextAt(call[c].url),
                                          {"method", "page_count"}, "pdf_pypdf2")]
       \/ call' = [call EXCEPT ![c].pc = "pdf_wrap", ![c].exc = "PdfReadError",
                               ![c].trail = Append(@, "PyPDF2_failed")]
    /\ UNCHANGED <<Flags, ex, api, inv, ready, running, sem, batch, gathered, completed, handler, cancels>>

\* _scrape_pdf, outer handler: raise Exception("PDF processing failed: ...")
PdfWrap(c) ==
    /\ running = c
    /\ call[c].pc = "pdf_wrap"
    /\ call' = [call EXCEPT ![c].pc = "except", ![c].exc = "PDFProcessingFailed"]
    /\ UNCHANGED <<Flags, ex, api, inv, ready, running, sem, batch, gathered, completed, handler, cancels>>

\* _scrape_with_selenium, "driver = webdriver.Chrome(options=options)"
SeLaunch(c) ==
    /\ running = c
    /\ call[c].pc = "se_launch"
    /\ \/ call' = [call EXCEPT ![c].pc = "se_get", ![c].browser = "open",
                               ![c].networked = TRUE, ![c].client = "driver"]
       \/ call' = [call EXCEPT ![c].pc = "se_finally", ![c].exc = "WebDriverException",
                               ![c].networked = TRUE]
    /\ UNCHANGED <<Flags, ex, api, inv, ready, running, sem, batch, gathered, completed, handler, cancels>>

\* "driver.get(url)" and the WebDriverWait for <body> (then time.sleep(2));
\* TimeoutException is a WebDriverException
SeGet(c) ==
    /\ running = c
    /\ call[c].pc = "se_get"
    /\ \/ call' = [call EXCEPT ![c].pc = "se_extract", ![c].networked = TRUE]
       \/ call' = [call EXCEPT ![c].pc = "se_finally", ![c].exc = "WebDriverException",
                               ![c].networked = TRUE]
    /\ UNCHANGED <<Flags, ex, api, inv, ready, running, sem, batch, gathered, completed, handler, cancels>>

\* page_source, extraction, then the returned dictionary, which reads
\* driver.title and driver.current_url after the extraction
SeExtract(c) ==
    /\ running = c
    /\ call[c].pc = "se_extract"
    /\ LET content == HtmlContent(PageAt(call[c].url), call[c].url,
                                  {"method", "page_title", "current_url"}, "selenium")
       IN  \/ call' = [call EXCEPT ![c].pc = "se_finally", ![c].extracted = TRUE,
                                   ![c].content = content]
           \/ call' = [call EXCEPT ![c].pc = "se_finally", ![c].extracted = TRUE,
                                   ![c].content = content,
                                   ![c].exc = "WebDriverException"]
    /\ UNCHANGED <<Flags, ex, api, inv, ready, running, sem, batch, gathered, completed, handler, cancels>>

SeFinally_QuitOnSuccess(c) ==
    /\ running = c
    /\ call[c].pc = "se_finally"
    /\ call' = [call EXCEPT ![c].pc = IF call[c].exc = "none" THEN "postprocess" ELSE "except",
                            ![c].browser = IF @ = "open" /\ call[c].exc = "none"
                                           THEN "closed" ELSE @]
    /\ UNCHANGED <<Flags, ex, api, inv, ready, running, sem, batch, gathered, completed, handler, cancels>>

\* "finally: if driver: driver.quit()"
SeFinally(c) ==
    /\ running = c
    /\ call[c].pc = "se_finally"
    /\ call' = [call EXCEPT ![c].pc = IF call[c].exc = "none" THEN "postprocess" ELSE "except",
                            ![c].browser = IF @ = "open" THEN "closed" ELSE @]
    /\ UNCHANGED <<Flags, ex, api, inv, ready, running, sem, batch, gathered, completed, handler, cancels>>

\* "content = self._post_process_content(content, url)" and the success return
ReturnSuccess(c) ==
    /\ running = c
    /\ call[c].pc = "postprocess"
    /\ LET content == PostProcessContent(call[c].content, call[c].url)
       IN  call' = [call EXCEPT ![c].pc = "returned", ![c].content = content,
                                ![c].result = SuccessResult(call[c].url, content, call[c].method)]
    /\ UNCHANGED <<Flags, ex, api, inv, ready, running, sem, batch, gathered, completed, handler, cancels>>

\* the except branch of scrape_url: an Exception becomes the error result,
\* anything else leaves scrape_url
Except(c) ==
    /\ running = c
    /\ call[c].pc = "except"
    /\ call' = IF Caught(call[c].exc)
               THEN [call EXCEPT ![c].pc = "returned",
                                 ![c].result = ErrorResult(call[c].url, call[c].content,
                                                           call[c].exc, call[c].method)]
               ELSE [call EXCEPT ![c].pc = "raised"]
    /\ UNCHANGED <<Flags, ex, api, inv, ready, running, sem, batch, gathered, completed, handler, cancels>>

\* ------------------------------------------------------------------ playwright
\* An await that suspends coroutine c: the loop is free until the awaited
\* operation ends.
Suspend(c, rec) ==
    /\ call' = [call EXCEPT ![c] = [rec EXCEPT !.io = "pending"]]
    /\ running' = NoCo

\* the exception an await raises when its operation failed or the task was
\* cancelled while it waited
IoExc(o) == IF o = "ok" THEN "none"
            ELSE IF o = "fail" THEN "PlaywrightError" ELSE "CancelledError"

Resumed(c, pc) ==
    /\ running = c
    /\ call[c].pc = pc
    /\ call[c].io \in {"done", "cancelled"}

\* what the await of coroutine c yields: a value, an error, or CancelledError
Outcomes(c) == IF call[c].io = "cancelled" THEN {"cancelled"} ELSE {"ok", "fail"}

\* _scrape_with_playwright: the availability test, then
\* "async with async_playwright() as p"
PwStart(c) ==
    /\ running = c
    /\ call[c].pc = "pw_start"
    /\ IF PLAYWRIGHT_AVAILABLE
       THEN Suspend(c, [call[c] EXCEPT !.pc = "pw_enter"])
       ELSE /\ call' = [call EXCEPT ![c].pc = "except", ![c].exc = "ImportError"]
            /\ UNCHANGED running
    /\ UNCHANGED <<Flags, ex, api, inv, ready, sem, batch, gathered, completed, handler, cancels>>

\* the driver has started: "browser = await p.chromium.launch(headless=True)"
PwEnter(c) ==
    /\ Resumed(c, "pw_enter")
    /\ \E o \in Outcomes(c) :
         IF o = "ok"
         THEN Suspend(c, [call[c] EXCEPT !.pc = "pw_launch", !.networked = TRUE])
         ELSE /\ call' = [call EXCEPT ![c].pc = "except", ![c].io = "none",
                                      ![c].exc = IoExc(o)]
              /\ UNCHANGED running
    /\ UNCHANGED <<Flags, ex, api, inv, ready, sem, batch, gathered, completed, handler, cancels>>

\* the browser is up: "page = await browser.new_page()"
PwLaunch(c) ==
    /\ Resumed(c, "pw_launch")
    /\ \E o \in Outcomes(c) :
         IF o = "ok"
         THEN Suspend(c, [call[c] EXCEPT !.pc = "pw_new_page", !.browser = "open",
                                              !.client = "browser"])
         ELSE /\ call' = [call EXCEPT ![c].pc = "except", ![c].io = "none",
                                      ![c].exc = IoExc(o)]
              /\ UNCHANGED running
    /\ UNCHANGED <<Flags, ex, api, inv, ready, sem, batch, gathered, completed, handler, cancels>>

\* the page exists; inside "try": set_extra_http_headers, then
\* "await page.goto(url, wait_until='networkidle')".  new_page is outside the
\* try: when it fails browser.close() is not called, and the browser goes
\* down with the driver when the "async with" block is left.
PwNewPage(c) ==
    /\ Resumed(c, "pw_new_page")
    /\ \E o \in Outcomes(c) :
         IF o = "ok"
         THEN Suspend(c, [call[c] EXCEPT !.pc = "pw_goto", !.networked = TRUE])
         ELSE /\ call' = [call EXCEPT ![c].pc = "except", ![c].io = "none",
                                      ![c].browser = "driver_stopped",
                                      ![c].exc = IoExc(o)]
              /\ UNCHANGED running
    /\ UNCHANGED <<Flags, ex, api, inv, ready, sem, batch, gathered, completed, handler, cancels>>

\* navigation and wait_for_load_state are over: "content = await page.content()";
\* a failure inside the try goes to "finally: await browser.close()"
PwGoto(c) ==
    /\ Resumed(c, "pw_goto")
    /\ \E o \in Outcomes(c) :
         Suspend(c, [call[c] EXCEPT !.pc = IF o = "ok" THEN "pw_content" ELSE "pw_close",
                                   !.exc = IoExc(o)])
    /\ UNCHANGED <<Flags, ex, api, inv, ready, sem, batch, gathered, completed, handler, cancels>>

\* the HTML is there: parse and extract, then "await page.title()" while the
\* returned dictionary is built
PwContent(c) ==
    /\ Resumed(c, "pw_content")
    /\ \E o \in Outcomes(c) :
         IF o = "ok"
         THEN Suspend(c, [call[c] EXCEPT !.pc = "pw_title", !.extracted = TRUE,
                           !.content = HtmlContent(PageAt(call[c].url), call[c].url,
                                 {"method", "page_title", "current_url"}, "playwright")])
         ELSE Suspend(c, [call[c] EXCEPT !.pc = "pw_close", !.exc = IoExc(o)])
    /\ UNCHANGED <<Flags, ex, api, inv, ready, sem, batch, gathered, completed, handler, cancels>>

\* page.title() is over: "finally: await browser.close()"
PwTitle(c) ==
    /\ Resumed(c, "pw_title")
    /\ \E o \in Outcomes(c) :
         Suspend(c, [call[c] EXCEPT !.pc = "pw_close", !.exc = IoExc(o)])
    /\ UNCHANGED <<Flags, ex, api, inv, ready, sem, batch, gathered, completed, handler, cancels>>

\* browser.close() is over; the "async with" block is left and the function
\* returns the dictionary or lets the exception through
PwClose(c) ==
    /\ Resumed(c, "pw_close")
    /\ \E o \in Outcomes(c) :
         call' = IF o = "ok"
                 THEN [call EXCEPT ![c].pc = IF call[c].exc = "none" THEN "postprocess"
                                                                    ELSE "except",
                                   ![c].io = "none", ![c].browser = "closed"]
                 ELSE [call EXCEPT ![c].pc = "except", ![c].io = "none",
                                   ![c].browser = "driver_stopped",
                                   ![c].exc = IoExc(o)]
    /\ UNCHANGED <<Flags, ex, api, inv, ready, running, sem, batch, gathered, completed, handler, cancels>>

\* ------------------------------------------------------------------ semaphore
\* asyncio.Semaphore.locked()
SemLocked(s) == s.value = 0 \/ s.waiters # <<>>

IsPendingWaiter(w) == call[w].io = "pending"

\* _wake_up_next: the first waiter whose future is not done, 0 when none
NextWaiter(s) ==
    LET p == SelectSeq(s.waiters, IsPendingWaiter)
    IN  IF p = <<>> THEN 0 ELSE Head(p)

Without(seq, x) == SelectSeq(seq, LAMBDA y : y # x)

\* ------------------------------------------------------------------ scrape_multiple_urls
\* the URLs of the batches of the model: one per strategy class, one invalid
BatchUrls == {U_plain, U_gov, U_govpdf, U_bad}

BatchInputs == UNION {[1..n -> BatchUrls] : n \in 0..MaxUrls}

PostScrapeBatch_ValidatesCap(urls, mc) ==
    /\ Idle
    /\ running = NoCo
    /\ IF urls = <<>> \/ Len(urls) > MaxBatchSize \/ mc < 1
       THEN /\ batch' = [batch EXCEPT !.pc = "responded", !.urls = urls,
                                     !.max_concurrent = mc, !.status_code = 400]
            /\ UNCHANGED <<call, ready, sem>>
       ELSE /\ batch' = [batch EXCEPT !.pc = "gathering", !.urls = urls,
                                     !.max_concurrent = mc]
            /\ sem' = [value |-> mc, waiters |-> <<>>]
            /\ call' = [c \in Coros |->
                           IF c \in 1..Len(urls)
                           THEN [IdleCall EXCEPT !.pc = "t_start", !.url = urls[c]]
                           ELSE call[c]]
            /\ ready' = [k \in 1..Len(urls) |-> k]
    /\ UNCHANGED <<Flags, ex, api, inv, running, gathered, completed, handler, cancels>>

\* POST /scrape/batch: the handler checks the list, scrape_multiple_urls makes
\* the semaphore and one task per URL, and waits in asyncio.gather
PostScrapeBatch(urls, mc) ==
    /\ Idle
    /\ running = NoCo
    /\ IF urls = <<>> \/ Len(urls) > MaxBatchSize
       THEN /\ batch' = [batch EXCEPT !.pc = "responded", !.urls = urls,
                                     !.max_concurrent = mc, !.status_code = 400]
            /\ UNCHANGED <<call, ready, sem>>
       ELSE /\ batch' = [batch EXCEPT !.pc = "gathering", !.urls = urls,
                                     !.max_concurrent = mc]
            /\ sem' = [value |-> mc, waiters |-> <<>>]
            /\ call' = [c \in Coros |->
                           IF c \in 1..Len(urls)
                           THEN [IdleCall EXCEPT !.pc = "t_start", !.url = urls[c]]
                           ELSE call[c]]
            /\ ready' = [k \in 1..Len(urls) |-> k]
    /\ UNCHANGED <<Flags, ex, api, inv, running, gathered, completed, handler, cancels>>

TaskAcquire_NoSemaphore(i) ==
    /\ running = i
    /\ call[i].pc = "t_start"
    /\ call' = [call EXCEPT ![i] = StartCall([call[i] EXCEPT !.holds = FALSE],
                                             call[i].url, "auto")]
    /\ UNCHANGED <<Flags, ex, api, inv, ready, running, sem, batch, gathered, completed, handler, cancels>>

\* scrape_with_semaphore, "async with semaphore": acquire()
TaskAcquire(i) ==
    /\ running = i
    /\ call[i].pc = "t_start"
    /\ IF ~SemLocked(sem)
       THEN /\ sem' = [sem EXCEPT !.value = @ - 1]
            /\ call' = [call EXCEPT ![i] = StartCall([call[i] EXCEPT !.holds = TRUE],
                                                     call[i].url, "auto")]
            /\ UNCHANGED running
       ELSE /\ sem' = [sem EXCEPT !.waiters = Append(@, i)]
            /\ Suspend(i, [call[i] EXCEPT !.pc = "sem_wait"])
    /\ UNCHANGED <<Flags, ex, api, inv, ready, batch, gathered, completed, handler, cancels>>

\* acquire() goes on after "await fut": with the slot release() handed over,
\* or with CancelledError (the slot, if one was handed over, is given back);
\* then the task ends without having called scrape_url
TaskWake(i) ==
    /\ running = i
    /\ call[i].pc = "sem_wait"
    /\ call[i].io \in {"done", "cancelled", "cancelled_woken"}
    /\ LET ws == Without(sem.waiters, i)
           s1 == [sem EXCEPT !.waiters = ws]
           w == NextWaiter(s1)
       IN  IF call[i].io = "done"
           THEN /\ sem' = s1
                /\ call' = [call EXCEPT ![i] = StartCall([call[i] EXCEPT !.holds = TRUE],
                                                         call[i].url, "auto")]
                /\ UNCHANGED ready
           ELSE IF call[i].io = "cancelled" \/ w = 0
           THEN /\ sem' = IF call[i].io = "cancelled" THEN s1
                                                      ELSE [s1 EXCEPT !.value = @ + 1]
                /\ call' = [call EXCEPT ![i].pc = "t_cancelled", ![i].io = "none",
                                        ![i].exc = "CancelledError"]
                /\ UNCHANGED ready
           ELSE /\ sem' = s1
                /\ call' = [call EXCEPT ![i].pc = "t_cancelled", ![i].io = "none",
                                        ![i].exc = "CancelledError",
                                        ![w].io = "done"]
                /\ ready' = Append(ready, w)
    /\ UNCHANGED <<Flags, ex, api, inv, running, batch, gathered, completed, handler, cancels>>

\* what is left of an activation when its task has ended: how it ended
EndedFrame(f) ==
    [IdleCall EXCEPT !.pc = "t_done", !.exc = f.exc, !.result = f.result,
                     !.client = f.client]

AllDone(g, n) == \A k \in 1..n : g[k].kind # "pending"

TaskFinish_ReleaseOnReturn(i) ==
    /\ running = i
    /\ call[i].pc \in {"returned", "raised", "t_cancelled"}
    /\ gathered[i].kind = "pending"
    /\ LET rel == call[i].holds /\ call[i].pc = "returned"
           w == IF rel THEN NextWaiter(sem) ELSE 0
           g == [gathered EXCEPT ![i] = IF call[i].pc = "returned"
                                        THEN call[i].result
                                        ELSE ExceptionResult(call[i].exc)]
           r1 == IF w = 0 THEN ready ELSE Append(ready, w)
       IN  /\ sem' = IF rel /\ w = 0 THEN [sem EXCEPT !.value = @ + 1] ELSE sem
           /\ call' = IF w = 0 THEN [call EXCEPT ![i] = EndedFrame(call[i])]
                                ELSE [call EXCEPT ![i] = EndedFrame(call[i]),
                                                  ![w].io = "done"]
           /\ gathered' = g
           /\ ready' = IF AllDone(g, Len(batch.urls)) THEN Append(r1, 0) ELSE r1
    /\ completed' = Append(completed, i)
    /\ running' = NoCo
    /\ UNCHANGED <<Flags, ex, api, inv, batch, handler, cancels>>

\* scrape_url is over for task i: "async with" releases the slot, the task
\* ends, and gather stores its result or its exception in slot i; when the
\* last task ends, the coroutine waiting in gather becomes ready
TaskFinish(i) ==
    /\ running = i
    /\ call[i].pc \in {"returned", "raised", "t_cancelled"}
    /\ gathered[i].kind = "pending"
    /\ LET w == IF call[i].holds THEN NextWaiter(sem) ELSE 0
           g == [gathered EXCEPT ![i] = IF call[i].pc = "returned"
                                        THEN call[i].result
                                        ELSE ExceptionResult(call[i].exc)]
           r1 == IF w = 0 THEN ready ELSE Append(ready, w)
       IN  /\ sem' = IF call[i].holds /\ w = 0 THEN [sem EXCEPT !.value = @ + 1] ELSE sem
           /\ call' = IF w = 0 THEN [call EXCEPT ![i] = EndedFrame(call[i])]
                                ELSE [call EXCEPT ![i] = EndedFrame(call[i]),
                                                  ![w].io = "done"]
           /\ gathered' = g
           /\ ready' = IF AllDone(g, Len(batch.urls)) THEN Append(r1, 0) ELSE r1
    /\ completed' = Append(completed, i)
    /\ running' = NoCo
    /\ UNCHANGED <<Flags, ex, api, inv, batch, handler, cancels>>

\* Task.cancel() reaches a child task that waits in an await: CancelledError
\* is raised at that await when the task runs next
CancelTask(i) ==
    /\ cancels < MaxCancels
    /\ batch.pc = "gathering"
    /\ i \in 1..Len(batch.urls)
    /\ \/ /\ call[i].io = "pending"
          /\ call' = [call EXCEPT ![i].io = "cancelled"]
          /\ ready' = Append(ready, i)
       \/ /\ call[i].pc = "sem_wait"
          /\ call[i].io = "done"
          /\ call' = [call EXCEPT ![i].io = "cancelled_woken"]
          /\ UNCHANGED ready
    /\ cancels' = cancels + 1
    /\ UNCHANGED <<Flags, ex, api, inv, running, sem, batch, gathered, completed, handler>>

IsScrapedContent(r) == r.kind = "ScrapedContent"

FilterResults_KeepAll(g, n) == [k \in 1..n |-> g[k]]

FilterResults_AsCompleted(g, n) ==
    SelectSeq([k \in 1..Len(completed) |-> g[completed[k]]], IsScrapedContent)

\* "for result in results: if isinstance(result, ScrapedContent): ..."
FilterResults(g, n) == SelectSeq([k \in 1..n |-> g[k]], IsScrapedContent)

\* gather is done: filter the results, return them, and the handler answers
BatchReturn ==
    /\ running = 0
    /\ batch.pc = "gathering"
    /\ LET vr == FilterResults(gathered, Len(batch.urls))
       IN  batch' = [batch EXCEPT !.pc = "responded", !.valid_results = vr,
                                  !.status_code = 200, !.successful = Len(vr),
                                  !.failed = Len(batch.urls) - Len(vr)]
    /\ running' = NoCo
    /\ UNCHANGED <<Flags, ex, api, inv, call, ready, sem, gathered, completed, handler, cancels>>

\* ------------------------------------------------------------------ POST /scrape
RetryInputs == 0..MaxRetries

\* the request arrives: url, method and max_retries are read from the body;
\* "if not url" answers 400
PostScrape(url, method, max_retries) ==
    /\ Idle
    /\ running = NoCo
    /\ IF url = U_empty
       THEN /\ handler' = [handler EXCEPT !.pc = "responded", !.url = url,
                                         !.method = method, !.max_retries = max_retries,
                                         !.route = "/scrape",
                                         !.status_code = 400, !.detail = "URL is required"]
            /\ UNCHANGED running
       ELSE /\ handler' = [handler EXCEPT !.pc = "loop", !.url = url, !.method = method,
                                         !.route = "/scrape",
                                         !.max_retries = max_retries]
            /\ running' = 0
    /\ UNCHANGED <<Flags, ex, api, inv, call, ready, sem, batch, gathered, completed, cancels>>

LoopContinues_OneMore(attempt, max_retries) == attempt < max_retries + 1

\* "for attempt in range(max_retries)"
LoopContinues(attempt, max_retries) == attempt < max_retries


\* "if attempt < max_retries - 1"
SleepsAfter(attempt, max_retries) == attempt < max_retries - 1

Backoff_Linear(attempt) == 2 * attempt

\* "await asyncio.sleep(2 ** attempt)"
Backoff(attempt) == 2 ^ attempt

\* loop head: the next attempt calls scraper_service.scrape_url(url, method),
\* or the loop is exhausted
HandlerLoop ==
    /\ running = 0
    /\ handler.pc = "loop"
    /\ IF LoopContinues(handler.attempt, handler.max_retries)
       THEN /\ handler' = [handler EXCEPT !.pc = "in_call", !.calls = @ + 1]
            /\ call' = [call EXCEPT ![0] = StartCall(IdleCall, handler.url, handler.method)]
       ELSE /\ handler' = [handler EXCEPT !.pc = "respond"]
            /\ UNCHANGED call
    /\ UNCHANGED <<Flags, ex, api, inv, ready, running, sem, batch, gathered, completed, cancels>>

\* "result = await scraper_service.scrape_url(url, method); break"
HandlerAttemptReturned ==
    /\ running = 0
    /\ handler.pc = "in_call"
    /\ call[0].pc = "returned"
    /\ handler' = [handler EXCEPT !.pc = "respond", !.result = call[0].result]
    /\ UNCHANGED <<Flags, ex, api, inv, call, ready, running, sem, batch, gathered, completed, cancels>>

\* "except Exception as e": remember the error, log it, and sleep unless this
\* was the last attempt
HandlerAttemptRaised ==
    /\ running = 0
    /\ handler.pc = "in_call"
    /\ call[0].pc = "raised"
    /\ call[0].exc \in ExceptionKinds
    /\ IF SleepsAfter(handler.attempt, handler.max_retries)
       THEN /\ handler' = [handler EXCEPT !.pc = "sleeping", !.last_error = call[0].exc,
                                         !.sleeps = Append(@, Backoff(handler.attempt))]
            /\ running' = NoCo
       ELSE /\ handler' = [handler EXCEPT !.pc = "loop", !.last_error = call[0].exc,
                                         !.attempt = @ + 1]
            /\ UNCHANGED running
    /\ UNCHANGED <<Flags, ex, api, inv, call, ready, sem, batch, gathered, completed, cancels>>

\* the timer of asyncio.sleep fires
SleepDone ==
    /\ handler.pc = "sleeping"
    /\ handler' = [handler EXCEPT !.pc = "slept"]
    /\ ready' = Append(ready, 0)
    /\ UNCHANGED <<Flags, ex, api, inv, call, running, sem, batch, gathered, completed, cancels>>

\* the handler goes on after the sleep with the next attempt
HandlerWake ==
    /\ running = 0
    /\ handler.pc = "slept"
    /\ handler' = [handler EXCEPT !.pc = "loop", !.attempt = @ + 1]
    /\ UNCHANGED <<Flags, ex, api, inv, call, ready, running, sem, batch, gathered, completed, cancels>>

\* after the loop: 500 "Scraping failed after all retries" when no attempt
\* returned, else 200 with the fields of the result
HandlerRespond ==
    /\ running = 0
    /\ handler.pc = "respond"
    /\ handler' = IF handler.result = NoResult
                  THEN [handler EXCEPT !.pc = "responded", !.status_code = 500,
                                       !.detail = IF handler.last_error # "none"
                                                  THEN handler.last_error
                                                  ELSE "Unknown error"]
                  ELSE [handler EXCEPT !.pc = "responded", !.status_code = 200]
    /\ running' = NoCo
    /\ UNCHANGED <<Flags, ex, api, inv, call, ready, sem, batch, gathered, completed, cancels>>

\* ------------------------------------------------------------------ POST /scrape/government
\* "method = 'selenium' if scraper_service._determine_scraping_method(url) ==
\* 'selenium' else 'auto'"
GovMethod(url, selenium, playwright) ==
    IF DetermineScrapingMethod(url, selenium, playwright) = "selenium"
    THEN "selenium" ELSE "auto"

\* the request arrives: "if not url" answers 400; else the method is chosen
\* and scraper_service.scrape_url(url, method) is called (once, no retry)
PostScrapeGov(url, extract_acts) ==
    /\ Idle
    /\ running = NoCo
    /\ IF url = U_empty
       THEN /\ handler' = [handler EXCEPT !.pc = "responded", !.url = url,
                                         !.extract_acts = extract_acts,
                                         !.route = "/scrape/government",
                                         !.status_code = 400, !.detail = "URL is required"]
            /\ UNCHANGED <<call, running>>
       ELSE LET method == GovMethod(url, SELENIUM_AVAILABLE, PLAYWRIGHT_AVAILABLE)
            IN  /\ handler' = [handler EXCEPT !.pc = "gov_in_call", !.url = url,
                                             !.method = method,
                                             !.route = "/scrape/government",
                                             !.extract_acts = extract_acts]
                /\ call' = [call EXCEPT ![0] = StartCall(IdleCall, url, method)]
                /\ running' = 0
    /\ UNCHANGED <<Flags, ex, api, inv, ready, sem, batch, gathered, completed, cancels>>

GovRespond_DropsPdfs ==
    /\ running = 0
    /\ handler.pc = "gov_in_call"
    /\ call[0].pc = "returned"
    /\ LET r == call[0].result
           refs == FoundPatterns(LegalPatterns, r.content)
           r2 == IF handler.extract_acts /\ r.status = "success"
                 THEN [r EXCEPT !.metadata.keys = @ \cup {"legal_references"},
                                !.metadata.legal_references = ListOfSet(refs),
                                !.pdfs = <<>>]
                 ELSE r
       IN  handler' = [handler EXCEPT !.pc = "responded", !.result = r2,
                                      !.status_code = 200]
    /\ running' = NoCo
    /\ UNCHANGED <<Flags, ex, api, inv, call, ready, sem, batch, gathered, completed, cancels>>

\* scrape_url returned: "if extract_acts and result.status == 'success'" the
\* handler writes result.metadata['legal_references'] = list(set(...)) from
\* its own six patterns, then answers 200 with the fields of the result.
\* (The handler's "except Exception" needs scrape_url to raise, which it does
\* not do on this coroutine: AttemptNeverRaises.)
GovRespond ==
    /\ running = 0
    /\ handler.pc = "gov_in_call"
    /\ call[0].pc = "returned"
    /\ LET r == call[0].result
           refs == FoundPatterns(LegalPatterns, r.content)
           r2 == IF handler.extract_acts /\ r.status = "success"
                 THEN [r EXCEPT !.metadata.keys = @ \cup {"legal_references"},
                                !.metadata.legal_references = ListOfSet(refs)]
                 ELSE r
       IN  handler' = [handler EXCEPT !.pc = "responded", !.result = r2,
                                      !.status_code = 200]
    /\ running' = NoCo
    /\ UNCHANGED <<Flags, ex, api, inv, call, ready, sem, batch, gathered, completed, cancels>>

\* ------------------------------------------------------------------ specification
ScrapeUrlStep(c) ==
    \/ Validate(c)
    \/ Classify(c)
    \/ Dispatch(c)
    \/ ScrapeWithRequests(c)
    \/ PdfGet(c)
    \/ PdfPlumber(c)
    \/ PdfPyPDF2(c)
    \/ PdfWrap(c)
    \/ SeLaunch(c)
    \/ SeGet(c)
    \/ SeExtract(c)
    \/ SeFinally(c)
    \/ PwStart(c)
    \/ PwEnter(c)
    \/ PwLaunch(c)
    \/ PwNewPage(c)
    \/ PwGoto(c)
    \/ PwContent(c)
    \/ PwTitle(c)
    \/ PwClose(c)
    \/ ReturnSuccess(c)
    \/ Except(c)
    \/ IoComplete(c)

\* The composed system. The steps of the handler that follow a raised attempt
\* (HandlerAttemptRaised, SleepDone, HandlerWake) belong to NextRetry below: in
\* the composition the awaited scrape_url returns a value on every path that
\* `except Exception` covers (AttemptNeverRaises), so they are never enabled here.
Next ==
    \/ \E u \in Urls, m \in Methods, r \in RetryInputs : PostScrape(u, m, r)
    \/ \E us \in BatchInputs, mc \in 0..MaxConc : PostScrapeBatch(us, mc)
    \/ LoopPick
    \/ \E c \in Coros : ScrapeUrlStep(c)
    \/ \E i \in Tasks : TaskAcquire(i) \/ TaskWake(i) \/ TaskFinish(i) \/ CancelTask(i)
    \/ BatchReturn
    \/ HandlerLoop
    \/ HandlerAttemptReturned
    \/ HandlerRespond
    \/ \E u \in Urls, a \in BOOLEAN : PostScrapeGov(u, a)
    \/ GovRespond

Spec == Init /\ [][Next]_vars

\* The event loop runs whatever is ready, a coroutine that holds the loop goes
\* on to its next await, and every awaited operation of a call ends (every
\* call of scrape_url terminates).  Cancellation is not forced.
Fairness ==
    /\ WF_vars(LoopPick)
    /\ WF_vars(BatchReturn)
    /\ \A c \in Coros : WF_vars(ScrapeUrlStep(c))
    /\ \A i \in Tasks : WF_vars(TaskAcquire(i) \/ TaskWake(i) \/ TaskFinish(i))

SpecLive == Init /\ [][Next]_vars /\ Fairness

\* ------------------------------------------------------------------ the retry loop alone
\* The loop of POST /scrape around an attempt function about which nothing is
\* assumed: the awaited call at v1.py:339 either returns a value or raises.
StubResult(url, method) ==
    [kind |-> "ScrapedContent", url |-> url, title |-> "stub", content |-> <<>>,
     images |-> <<>>, links |-> <<>>, pdfs |-> <<>>, metadata |-> NoMeta,
     status |-> "success", method_used |-> method]

AttemptStub ==
    /\ running = 0
    /\ handler.pc = "in_call"
    /\ call[0].pc = "validate"
    /\ \/ call' = [call EXCEPT ![0].pc = "returned",
                               ![0].result = StubResult(call[0].url, call[0].method)]
       \/ call' = [call EXCEPT ![0].pc = "raised", ![0].exc = "AttemptError"]
    /\ UNCHANGED <<Flags, ex, api, inv, ready, running, sem, batch, gathered, completed, handler, cancels>>

NextRetry ==
    \/ \E u \in Urls, m \in Methods, r \in RetryInputs : PostScrape(u, m, r)
    \/ LoopPick
    \/ AttemptStub
    \/ HandlerLoop
    \/ HandlerAttemptReturned
    \/ HandlerAttemptRaised
    \/ SleepDone
    \/ HandlerWake
    \/ HandlerRespond

SpecRetry == Init /\ [][NextRetry]_vars

\* ------------------------------------------------------------------ the extractors alone
\* The five extractors applied to one parsed document in the order in which
\* the HTML strategies call them (scraper.py:219-223), and then once more to
\* the same document object.
Docs ==
    {[title |-> t, h1s |-> h, text |-> <<El("Intro", "body"), El("Menu", "nav")>>,
      imgs |-> i, hrefs |-> l] :
        t \in {"", "Policy"},
        h \in {<<>>, <<El("Heading", "body")>>, <<El("Heading", "header")>>,
               <<El("Top", "header"), El("Heading", "body")>>},
        i \in {<<>>, <<El(<<"logo.png">>, "header"), El(<<"a.png">>, "body"),
                       El(<<>>, "body")>>},
        l \in {<<>>, <<El(<<"home">>, "nav"), El(<<"doc", ".pdf">>, "body"),
                       El(<<"terms", ".pdf">>, "footer")>>}}

\* the base URL of the extracted document
ExBase == U_plain

InitExtract ==
    /\ SELENIUM_AVAILABLE \in BOOLEAN
    /\ PLAYWRIGHT_AVAILABLE \in BOOLEAN
    /\ call = [c \in Coros |-> IdleCall]
    /\ ready = <<>>
    /\ running = NoCo
    /\ sem = [value |-> 0, waiters |-> <<>>]
    /\ batch = IdleBatch
    /\ gathered = [i \in Tasks |-> Pending]
    /\ completed = <<>>
    /\ handler = IdleHandler
    /\ cancels = 0
    /\ \E d \in Docs : ex = [IdleEx EXCEPT !.pc = "title", !.doc = d, !.soup = d,
                                           !.round = 1]
    /\ api = IdleApi
    /\ inv = IdleInv

Service == <<call, ready, running, sem, batch, gathered, completed, handler, cancels>>

\* "title = self._extract_title(soup)"
ExTitle ==
    /\ ex.pc = "title"
    /\ ex' = [ex EXCEPT !.pc = "content", !.cur.title = ExtractTitle(ex.soup)]
    /\ UNCHANGED <<Flags, Service, api, inv>>

\* "content = self._extract_text_content(soup)": returns the text and leaves
\* the soup without the decomposed elements
ExContent ==
    /\ ex.pc = "content"
    /\ ex' = [ex EXCEPT !.pc = "images", !.cur.content = ExtractTextContent(ex.soup),
                        !.soup = Decompose(ex.soup)]
    /\ UNCHANGED <<Flags, Service, api, inv>>

\* "images = self._extract_images(soup, url)"
ExImages ==
    /\ ex.pc = "images"
    /\ ex' = [ex EXCEPT !.pc = "links", !.cur.images = ExtractImages(ex.soup, ExBase)]
    /\ UNCHANGED <<Flags, Service, api, inv>>

\* "links = self._extract_links(soup, url)"
ExLinks ==
    /\ ex.pc = "links"
    /\ ex' = [ex EXCEPT !.pc = "pdfs", !.cur.links = ExtractLinks(ex.soup, ExBase)]
    /\ UNCHANGED <<Flags, Service, api, inv>>

\* "pdfs = self._extract_pdfs(soup, url)"; after the first round the second
\* starts on the same soup
ExPdfs ==
    /\ ex.pc = "pdfs"
    /\ LET done == [ex.cur EXCEPT !.pdfs = ExtractPdfs(ex.soup, ExBase)]
       IN  ex' = [ex EXCEPT !.pc = IF ex.round = 1 THEN "title" ELSE "done",
                            !.round = IF ex.round = 1 THEN 2 ELSE @,
                            !.cur = NoExtract, !.out = Append(@, done)]
    /\ UNCHANGED <<Flags, Service, api, inv>>

NextExtract == ExTitle \/ ExContent \/ ExImages \/ ExLinks \/ ExPdfs

SpecExtract == InitExtract /\ [][NextExtract]_vars

\* ------------------------------------------------------------------ POST /query, GET /document, POST /ingest
\* request bodies: a query is the sequence of its lower-cased words
Q_admission == <<"what", "is", "the", "admission", "policy">>

Q_test == <<"test", "query">>

Q_empty == <<>>

Queries == {Q_admission, Q_test, Q_empty}

Models == {"None", "llama3"}

ThinkingModes == {"None", "deep"}

DocumentIds == {"N/A", "", "nonexistent", "doc-1"}

\* QueryRequest.query: Field(..., min_length=1, max_length=1000)
ValidQuery(q) == Len(q) >= 1

\* RetrievalService.detect_language
DetectLanguage(q) ==
    IF \E k \in 1..Len(q) : q[k] \in {"admission", "policy", "education", "university"}
    THEN "English" ELSE "N/A"

\* RetrievalService.dense_retrieval, sparse_retrieval: no candidates
DenseRetrieval(q) == <<>>

SparseRetrieval(q) == <<>>

\* KnowledgeGraphService.traverse_graph
TraverseGraph(q) == "N/A"

\* "request.model or ..." and "request.thinking_mode or ..."
OrDefault(v, default) == IF v = "None" THEN default ELSE v

\* decimal text of the number process_query returns
IntText(n) == IF n = 0 THEN "0" ELSE "n"

\* the call llm_controller.process_query(*args): Python binds the positional
\* arguments to (query, context) and raises TypeError when there are more;
\* the body sleeps and returns controller_iterations = 0
LLMProcessQuery(args) ==
    IF Len(args) > ProcessQueryParams
    THEN [exc |-> "TypeError", value |-> 0]
    ELSE [exc |-> "none", value |-> 0]

\* documents the service holds: ingest_document creates a job id and stores
\* nothing, and no other handler stores a document
Stored == {}

ApiFree == api.pc \in {"idle", "responded"}

\* POST /query arrives; FastAPI validates the body against QueryRequest (422)
PostQuery(q, sim, model, mode) ==
    /\ ApiFree
    /\ api' = IF ValidQuery(q)
              THEN [IdleApi EXCEPT !.pc = "q_simulate", !.route = "/query", !.query = q,
                                   !.simulate_failure = sim, !.model = model,
                                   !.thinking_mode = mode, !.jobs = api.jobs]
              ELSE [IdleApi EXCEPT !.pc = "responded", !.route = "/query", !.query = q,
                                   !.status_code = 422, !.jobs = api.jobs]
    /\ UNCHANGED <<Flags, Service, ex, inv>>

\* "if request.simulate_failure: raise HTTPException(status_code=503, ...)"
QuerySimulateFailure ==
    /\ api.pc = "q_simulate"
    /\ api' = IF api.simulate_failure
              THEN [api EXCEPT !.pc = "responded", !.status_code = 503,
                               !.body.error = "Service unavailable"]
              ELSE [api EXCEPT !.pc = "q_language"]
    /\ UNCHANGED <<Flags, Service, ex, inv>>

QueryDetectLanguage ==
    /\ api.pc = "q_language"
    /\ api' = [api EXCEPT !.pc = "q_dense", !.language = DetectLanguage(api.query)]
    /\ UNCHANGED <<Flags, Service, ex, inv>>

QueryDenseRetrieval ==
    /\ api.pc = "q_dense"
    /\ api' = [api EXCEPT !.pc = "q_sparse", !.dense = DenseRetrieval(api.query)]
    /\ UNCHANGED <<Flags, Service, ex, inv>>

QuerySparseRetrieval ==
    /\ api.pc = "q_sparse"
    /\ api' = [api EXCEPT !.pc = "q_kg", !.sparse = SparseRetrieval(api.query)]
    /\ UNCHANGED <<Flags, Service, ex, inv>>

QueryTraverseGraph ==
    /\ api.pc = "q_kg"
    /\ api' = [api EXCEPT !.pc = "q_controller", !.kg_result = TraverseGraph(api.query)]
    /\ UNCHANGED <<Flags, Service, ex, inv>>

\* "answer = await llm_controller.process_query(request.query, model,
\* thinking_mode)", then the QueryResponse (controller_iterations=1 is written
\* in the handler); "except Exception" answers 500
QueryController ==
    /\ api.pc = "q_controller"
    /\ LET model == OrDefault(api.model, "deepseek-r1:7b")
           thinking_mode == OrDefault(api.thinking_mode, "smart")
           r == LLMProcessQuery(<<api.query, model, thinking_mode>>)
       IN  api' = IF r.exc # "none"
                  THEN [api EXCEPT !.pc = "responded", !.status_code = 500,
                                   !.body.error = "Internal server error"]
                  ELSE [api EXCEPT !.pc = "responded", !.status_code = 200,
                                   !.body.answer = IntText(r.value),
                                   !.body.risk_assessment = "Coming soon",
                                   !.body.language = api.language,
                                   !.body.kg_traversal = api.kg_result,
                                   !.body.controller_iterations = 1]
    /\ UNCHANGED <<Flags, Service, ex, inv>>

\* get_document(document_id): 404 for "N/A" and for the empty id, the
\* placeholder document for every other id
GetDocument(document_id) ==
    /\ ApiFree
    /\ api' = IF document_id = "N/A" \/ document_id = ""
              THEN [IdleApi EXCEPT !.pc = "responded", !.route = "/document",
                                   !.document_id = document_id, !.status_code = 404,
                                   !.body.error = "Document not found", !.jobs = api.jobs]
              ELSE [IdleApi EXCEPT !.pc = "responded", !.route = "/document",
                                   !.document_id = document_id, !.status_code = 200,
                                   !.body.id = document_id, !.body.title = "N/A",
                                   !.jobs = api.jobs]
    /\ UNCHANGED <<Flags, Service, ex, inv>>

\* ingest_document: a fresh job id, status "accepted"; nothing is stored
PostIngest ==
    /\ ApiFree
    /\ api.jobs < MaxJobs
    /\ api' = [IdleApi EXCEPT !.pc = "responded", !.route = "/ingest",
                              !.status_code = 200, !.body.jobId = api.jobs + 1,
                              !.body.status = "accepted", !.jobs = api.jobs + 1]
    /\ UNCHANGED <<Flags, Service, ex, inv>>

NextApi ==
    \/ \E q \in Queries, sim \in BOOLEAN, model \in Models, mode \in ThinkingModes :
          PostQuery(q, sim, model, mode)
    \/ QuerySimulateFailure
    \/ QueryDetectLanguage
    \/ QueryDenseRetrieval
    \/ QuerySparseRetrieval
    \/ QueryTraverseGraph
    \/ QueryController
    \/ \E document_id \in DocumentIds : GetDocument(document_id)
    \/ PostIngest

SpecApi == Init /\ [][NextApi]_vars

\* ------------------------------------------------------------------ concurrent invocations
\* Requests are handled concurrently on one event loop and all of them use the
\* one scraper_service.  This part has two invocations of scrape_multiple_urls
\* and one direct call of scrape_url in progress together; of scrape_url it
\* keeps only that a call begins, may suspend, and ends.
SemOf_Shared(b) == 1

\* "semaphore = asyncio.Semaphore(max_concurrent)": a local of the invocation
SemOf(b) == b

\* scrape_multiple_urls(urls, max_concurrent) is entered: the semaphore and
\* one task per URL are made, and the invocation waits in gather
ScrapeMany(b, n, mc) ==
    /\ inv.run[b].pc = "idle"
    /\ inv' = [inv EXCEPT !.sem[SemOf(b)] = mc,
                          !.run[b] = [pc |-> "gathering", max_concurrent |-> mc, n |-> n,
                                      task |-> [i \in Tasks |->
                                                  IF i <= n THEN "start" ELSE "none"]]]
    /\ UNCHANGED <<Flags, Service, ex, api>>

\* "async with semaphore": the task enters scrape_url when the semaphore of
\* its invocation has a free slot, and waits otherwise
InvAcquire(b, i) ==
    /\ inv.run[b].pc = "gathering"
    /\ inv.run[b].task[i] \in {"start", "waiting"}
    /\ IF inv.sem[SemOf(b)] > 0
       THEN inv' = [inv EXCEPT !.sem[SemOf(b)] = @ - 1, !.run[b].task[i] = "in_call"]
       ELSE /\ inv.run[b].task[i] = "start"
            /\ inv' = [inv EXCEPT !.run[b].task[i] = "waiting"]
    /\ UNCHANGED <<Flags, Service, ex, api>>

\* scrape_url is over for the task: the slot goes back to the semaphore of
\* its invocation
InvRelease(b, i) ==
    /\ inv.run[b].task[i] = "in_call"
    /\ inv' = [inv EXCEPT !.sem[SemOf(b)] = @ + 1, !.run[b].task[i] = "done"]
    /\ UNCHANGED <<Flags, Service, ex, api>>

\* gather is done and the invocation returns
InvReturn(b) ==
    /\ inv.run[b].pc = "gathering"
    /\ \A i \in 1..inv.run[b].n : inv.run[b].task[i] = "done"
    /\ inv' = [inv EXCEPT !.run[b].pc = "returned"]
    /\ UNCHANGED <<Flags, Service, ex, api>>

\* POST /scrape: "result = await scraper_service.scrape_url(url, method)",
\* without any semaphore
DirectCall ==
    /\ inv.direct = "none"
    /\ inv' = [inv EXCEPT !.direct = "in_call"]
    /\ UNCHANGED <<Flags, Service, ex, api>>

DirectReturn ==
    /\ inv.direct = "in_call"
    /\ inv' = [inv EXCEPT !.direct = "returned"]
    /\ UNCHANGED <<Flags, Service, ex, api>>

NextCap ==
    \/ \E b \in Invocations, n \in 1..MaxUrls, mc \in 1..MaxConc : ScrapeMany(b, n, mc)
    \/ \E b \in Invocations, i \in Tasks : InvAcquire(b, i) \/ InvRelease(b, i)
    \/ \E b \in Invocations : InvReturn(b)
    \/ DirectCall
    \/ DirectReturn

SpecCap == Init /\ [][NextCap]_vars

\* ------------------------------------------------------------------ properties
\* program points inside scrape_url
ScrapePcs ==
    {"validate", "classify", "dispatch", "rq_get", "pdf_get", "pdf_plumber",
     "pdf_pypdf2", "pdf_wrap", "se_launch", "se_get", "se_extract", "se_finally",
     "pw_start", "pw_enter", "pw_launch", "pw_new_page", "pw_goto", "pw_content",
     "pw_title", "pw_close", "postprocess", "except"}

\* the activations that exist as frames of scrape_url (running or just ended)
Frames == {c \in Coros : call[c].pc \in ScrapePcs \cup {"returned", "raised"}}

FetchErrors ==
    {"HTTPError", "RequestException", "WebDriverException", "PlaywrightError",
     "PDFProcessingFailed"}

\* C1: scrape_url ends by returning one ScrapedContent whose status is success
\* or error; every exception of class Exception that a stage raised has become
\* the error result (status is error exactly when a stage raised), and the
\* only thing that ever leaves scrape_url as an exception is a cancellation of
\* the task, which is no failure of a stage.
C1_FailuresCaptured ==
    \A c \in Coros :
        /\ call[c].pc = "raised" => call[c].exc \in BaseExceptionKinds
        /\ (call[c].pc = "t_done" /\ call[c].result = NoResult)
              => call[c].exc \in BaseExceptionKinds
        /\ call[c].pc = "returned" =>
              /\ call[c].result.kind = "ScrapedContent"
              /\ call[c].result.status \in {"success", "error"}
              /\ call[c].result.status = "error" <=> call[c].exc # "none"
              /\ call[c].result.url = call[c].url

\* a fetch failed in the middle of a call and the call returned the error result
C1_Witness ==
    \E c \in Coros :
        /\ call[c].pc = "returned"
        /\ call[c].exc \in FetchErrors
        /\ call[c].networked
        /\ call[c].result.status = "error"

\* C2: for a URL without scheme or without host, scrape_url returns status
\* error, and at no point of the call has a classification been made, a
\* strategy been chosen or a network operation (GET, browser launch, PDF
\* download) been started, whatever the method argument.
C2_InvalidUrlNoNetwork ==
    \A c \in Frames :
        (Scheme(call[c].url) = "" \/ Netloc(call[c].url) = "") =>
            /\ ~call[c].networked
            /\ ~call[c].classified
            /\ call[c].strategy = "none"
            /\ call[c].browser = "none"
            /\ call[c].pc \in {"validate", "except", "returned"}
            /\ call[c].pc = "returned" => call[c].result.status = "error"

\* a call for a URL with a scheme and no host, with an explicit method, returned
C2_Witness ==
    \E c \in Coros :
        /\ call[c].pc = "returned"
        /\ call[c].url = U_nohost
        /\ call[c].arg = "pdf"
        /\ call[c].result.status = "error"

\* every ScrapedContent the model holds: the return values of the activations,
\* what gather stored, what scrape_multiple_urls returned, what POST /scrape got
AllResults ==
    {call[c].result : c \in Coros}
       \cup {gathered[i] : i \in Tasks}
       \cup {batch.valid_results[k] : k \in 1..Len(batch.valid_results)}
       \cup {handler.result}

\* C3: a ScrapedContent with status error has the failure description as its
\* content and no images, links or pdfs, at whatever stage the failure happened.
C3_ErrorResultEmpty ==
    \A r \in AllResults :
        (r.kind = "ScrapedContent" /\ r.status = "error") =>
            /\ Len(r.content) = 2
            /\ r.content[1] = "Scraping failed:"
            /\ r.content[2] \in ExceptionKinds
            /\ r.title = "Error"
            /\ r.images = <<>>
            /\ r.links = <<>>
            /\ r.pdfs = <<>>

\* the failure came after the links of the page had been extracted
C3_Witness ==
    \E c \in Coros :
        /\ call[c].pc = "returned"
        /\ call[c].result.status = "error"
        /\ call[c].extracted
        /\ call[c].content.links # <<>>

\* the child tasks that are inside scrape_url
InFlight == {i \in Tasks : call[i].pc \in ScrapePcs}

\* C4: with max_concurrent >= 1, at most max_concurrent calls of scrape_url of
\* one scrape_multiple_urls invocation have started and not yet returned.
C4_AdmissionCap ==
    batch.max_concurrent >= 1 => Cardinality(InFlight) <= batch.max_concurrent

\* the cap is reached while another task waits for a slot
C4_Witness ==
    /\ batch.max_concurrent >= 1
    /\ Cardinality(InFlight) = batch.max_concurrent
    /\ \E i \in Tasks : call[i].pc = "sem_wait" /\ call[i].io = "pending"

\* C5: when every attempt fails, the loop with max_retries = N >= 1 has called
\* the attempt function exactly N times when it answers, the answer is the one
\* failure "Scraping failed after all retries" (500) with the last error, and
\* nothing is answered before.
C5_ExhaustedAfterN ==
    /\ handler.pc # "responded" => handler.status_code = 0
    /\ (handler.pc = "responded" /\ handler.url # U_empty /\ handler.max_retries >= 1
          /\ handler.result = NoResult) =>
            /\ handler.calls = handler.max_retries
            /\ handler.status_code = 500
            /\ handler.detail = "AttemptError"
            /\ handler.detail = handler.last_error

\* three attempts failed and the handler answered 500
C5_Witness ==
    /\ handler.pc = "responded"
    /\ handler.max_retries = 3
    /\ handler.calls = 3
    /\ handler.status_code = 500

\* C6: the sleeps of the loop are 2^0, 2^1, ... in that order, one after each
\* failed attempt but the last possible one; a success after k failures is
\* returned after k+1 calls and k sleeps, and when all max_retries attempts
\* fail there are max_retries - 1 sleeps.
C6_BackoffSchedule ==
    /\ \A k \in 1..Len(handler.sleeps) : handler.sleeps[k] = 2 ^ (k - 1)
    /\ (handler.pc = "responded" /\ handler.result # NoResult) =>
            /\ handler.calls = Len(handler.sleeps) + 1
            /\ handler.calls <= handler.max_retries
            /\ handler.status_code = 200
            /\ handler.result = StubResult(handler.url, handler.method)
    /\ (handler.pc = "responded" /\ handler.url # U_empty /\ handler.max_retries >= 1
          /\ handler.result = NoResult) =>
            Len(handler.sleeps) = handler.max_retries - 1

\* two failures, sleeps of 1 and 2 seconds, then the third attempt succeeded
C6_Witness ==
    /\ handler.pc = "responded"
    /\ handler.result # NoResult
    /\ handler.calls = 3
    /\ handler.sleeps = <<1, 2>>

\* C7 (as claimed): when a fetch of POST /scrape failed and the answer carries
\* status error, all max_retries attempts have been made.
C7_FetchRetried ==
    (/\ handler.pc = "responded"
     /\ handler.result # NoResult
     /\ handler.result.status = "error"
     /\ call[0].exc \in FetchErrors) => handler.calls = handler.max_retries

\* In the composition the attempt never raises into the loop, so the loop's
\* handler of a failed attempt (HandlerAttemptRaised) is never enabled.
AttemptNeverRaises == call[0].pc # "raised"

\* the child tasks whose call of scrape_url returned
ReturnedTasks == {i \in 1..Len(batch.urls) : call[i].result.kind = "ScrapedContent"}

\* C8: when scrape_multiple_urls returns, every task has ended, and the
\* returned sequence holds exactly one entry for every task whose call
\* returned (its own result, error results included) and none for a task
\* whose call raised.
C8_OnePerReturnedCall ==
    (batch.pc = "responded" /\ batch.status_code = 200) =>
        /\ \A i \in 1..Len(batch.urls) : call[i].pc = "t_done"
        /\ Len(batch.valid_results) = Cardinality(ReturnedTasks)
        /\ \E f \in [1..Len(batch.valid_results) -> ReturnedTasks] :
              /\ \A j, k \in DOMAIN f : j # k => f[j] # f[k]
              /\ \A k \in DOMAIN f :
                    /\ batch.valid_results[k] = call[f[k]].result
                    /\ batch.valid_results[k].url = batch.urls[f[k]]
        /\ batch.successful + batch.failed = Len(batch.urls)

\* one call raised, the batch returned the results of the others, one of
\* which is an error result
C8_Witness ==
    /\ batch.pc = "responded"
    /\ \E i \in 1..Len(batch.urls) : call[i].result = NoResult
    /\ Len(batch.valid_results) = Len(batch.urls) - 1
    /\ \E k \in 1..Len(batch.valid_results) : batch.valid_results[k].status = "error"

\* the results of the tasks whose call returned, in the order given by order
ResultsInOrder(order) ==
    SelectSeq([k \in 1..Len(order) |-> call[order[k]].result], IsScrapedContent)

\* C9 (as claimed): the returned sequence is in the order in which the calls
\* completed.
C9_CompletionOrder ==
    (batch.pc = "responded" /\ batch.status_code = 200) =>
        batch.valid_results = ResultsInOrder(completed)

\* C9 (amended): the returned sequence is in the order in which the URLs were
\* submitted, whatever the order in which the calls completed.
C9_SubmissionOrder ==
    (batch.pc = "responded" /\ batch.status_code = 200) =>
        batch.valid_results = ResultsInOrder([k \in 1..Len(batch.urls) |-> k])

\* the second call completed before the first, with a different result
C9_Witness ==
    /\ batch.pc = "responded"
    /\ Len(completed) >= 2
    /\ completed[1] = 2
    /\ completed[2] = 1
    /\ Len(batch.valid_results) >= 2
    /\ batch.valid_results[1] # batch.valid_results[2]

\* C10 (as claimed): method_used of a success result names the strategy
\* function that fetched.
C10_MethodUsedIsStrategy ==
    \A c \in Coros :
        (call[c].pc = "returned" /\ call[c].result.status = "success") =>
            call[c].result.method_used = call[c].strategy

\* the calls for which the strategy function has been chosen
Dispatched == {c \in Frames : call[c].strategy # "none"}

\* C11 (as claimed): when the selected dynamic strategy is unavailable, the
\* other dynamic backend fetches if it is available, the static strategy only
\* when neither is, and no call fails because a backend is missing.
C11_SubstituteOtherBackend ==
    \A c \in Dispatched :
        /\ (call[c].method = "selenium" /\ ~SELENIUM_AVAILABLE) =>
               call[c].strategy = IF PLAYWRIGHT_AVAILABLE THEN "playwright" ELSE "requests"
        /\ (call[c].method = "playwright" /\ ~PLAYWRIGHT_AVAILABLE) =>
               call[c].strategy = IF SELENIUM_AVAILABLE THEN "selenium" ELSE "requests"
        /\ call[c].exc # "ImportError"

\* C12: a URL that matches a PDF pattern is classified pdf, whatever its host
\* and whatever the availability flags; the PDF rule is tested before the
\* government rule.
C12_PdfRuleFirst ==
    \A c \in Frames :
        (call[c].classified /\ MatchesPdfPattern(call[c].url)) => call[c].method = "pdf"

\* a .pdf URL on a government host was classified pdf while selenium was available
C12_Witness ==
    \E c \in Frames :
        /\ call[c].classified
        /\ call[c].url = U_govpdf
        /\ SELENIUM_AVAILABLE
        /\ call[c].method = "pdf"

\* C13: a non-PDF URL on a government host is classified selenium when selenium
\* is available, else playwright when playwright is available, else requests;
\* the classification has used nothing but the URL and the two flags (no
\* network operation, no browser has been started when it is made).
C13_GovHostDynamic ==
    \A c \in Frames :
        /\ (call[c].classified /\ ~MatchesPdfPattern(call[c].url)
              /\ Lower(Netloc(call[c].url)) \in GovHosts) =>
                 call[c].method = IF SELENIUM_AVAILABLE THEN "selenium"
                                  ELSE IF PLAYWRIGHT_AVAILABLE THEN "playwright"
                                  ELSE "requests"
        /\ call[c].pc \in {"classify", "dispatch"} =>
              ~call[c].networked /\ call[c].browser = "none"

\* a government page was classified playwright because selenium was missing
C13_Witness ==
    \E c \in Frames :
        /\ call[c].classified
        /\ call[c].url = U_gov
        /\ ~SELENIUM_AVAILABLE
        /\ PLAYWRIGHT_AVAILABLE
        /\ call[c].method = "playwright"

\* C14 (as claimed): a URL that matches no PDF pattern and whose host matches
\* no government pattern is classified requests, wherever else in the URL a
\* government domain occurs.
C14_NonGovHostStatic ==
    \A c \in Frames :
        (call[c].classified /\ ~MatchesPdfPattern(call[c].url)
           /\ Lower(Netloc(call[c].url)) \notin GovHosts) => call[c].method = "requests"

\* the strategy named by m can run in this process
Available(m) ==
    \/ m \in {"requests", "pdf"}
    \/ m = "selenium" /\ SELENIUM_AVAILABLE
    \/ m = "playwright" /\ PLAYWRIGHT_AVAILABLE

\* C15: with an explicit method the classifier is not consulted and the
\* requested strategy, when available, is the one that runs, whatever the URL;
\* with "auto" the strategy that runs is the classifier's result for the URL.
C15_ExplicitOverrides ==
    \A c \in Dispatched :
        /\ call[c].arg # "auto" =>
              /\ ~call[c].classified
              /\ call[c].method = call[c].arg
              /\ Available(call[c].arg) => call[c].strategy = call[c].arg
        /\ call[c].arg = "auto" =>
              /\ call[c].classified
              /\ call[c].strategy = DetermineScrapingMethod(call[c].url,
                                        SELENIUM_AVAILABLE, PLAYWRIGHT_AVAILABLE)

\* an explicitly requested static fetch of a .pdf URL was done by the static
\* strategy and succeeded
C15_Witness ==
    \E c \in Coros :
        /\ call[c].pc = "returned"
        /\ call[c].arg = "requests"
        /\ MatchesPdfPattern(call[c].url)
        /\ call[c].strategy = "requests"
        /\ call[c].result.status = "success"

\* the citations (matches of act_patterns) in a cleaned text
ActCitations(text) ==
    {text[k] : k \in {j \in DOMAIN text : \E n \in DOMAIN ActPatterns :
                                              PatternOf(text[j]) = ActPatterns[n]}}

\* the successful calls of scrape_url for a URL on a government host, at return
GovHostSuccesses ==
    {c \in Coros : /\ call[c].pc = "returned"
                   /\ call[c].result.status = "success"
                   /\ Lower(Netloc(call[c].url)) \in GovHosts}

C17_GovOnlyPostProcessing ==
    \A r \in AllResults :
        (r.kind = "ScrapedContent" /\ r.status = "success") =>
            /\ "source_type" \in r.metadata.keys <=> Lower(Netloc(r.url)) \in GovHosts
            /\ Lower(Netloc(r.url)) \notin GovHosts =>
                  "legal_references" \notin r.metadata.keys

\* C18 (as claimed): the second round of the extractors on the same parsed
\* document returns what the first returned (title, content, images, links,
\* pdfs), and the document is as it was before.
C18_ExtractionIdempotent ==
    ex.pc = "done" =>
        /\ ex.out[1] = ex.out[2]
        /\ ex.soup = ex.doc

\* the successful calls that fetched an HTML page, at return
HtmlSuccesses ==
    {c \in Coros : /\ call[c].pc = "returned"
                   /\ call[c].result.status = "success"
                   /\ call[c].strategy \in {"requests", "selenium", "playwright"}}

\* C19 (as claimed): images holds one entry for every <img> with a src and
\* links one for every <a> with an href of the fetched document, wherever in
\* the document they are, in document order; pdfs holds the links that match
\* a PDF pattern, in the same order.
C19_AllImagesAndLinks ==
    \A c \in HtmlSuccesses :
        LET page == PageAt(call[c].url)
        IN  /\ call[c].result.images = ExtractImages(page, call[c].url)
            /\ call[c].result.links = ExtractLinks(page, call[c].url)
            /\ call[c].result.pdfs = ExtractPdfs(page, call[c].url)

\* the program points at which a strategy function holds a browser
BrowserPcs ==
    {"se_get", "se_extract", "se_finally", "pw_new_page", "pw_goto", "pw_content",
     "pw_title", "pw_close"}

\* C20: a browser that a fetch launched is open only while the strategy
\* function that launched it is running; when the function has returned or
\* raised (and so when scrape_url has returned or raised) the browser has
\* been closed by driver.quit() or browser.close(), or has gone down with the
\* playwright driver when the "async with" block was left.
C20_BrowserTornDown ==
    \A c \in Coros :
        /\ call[c].browser = "open" => call[c].pc \in BrowserPcs
        /\ call[c].pc \in {"postprocess", "except", "returned", "raised", "t_done"} =>
              call[c].browser \in {"none", "closed", "driver_stopped"}
        /\ call[c].browser # "none" => call[c].strategy \in {"selenium", "playwright"}

\* a playwright fetch failed after its browser was launched, at a point where
\* browser.close() is not called or fails (page creation, close), and
\* scrape_url returned the error result with the browser down
C20_Witness ==
    \E c \in Coros :
        /\ call[c].pc = "returned"
        /\ call[c].result.status = "error"
        /\ call[c].strategy = "playwright"
        /\ call[c].exc = "PlaywrightError"
        /\ call[c].browser = "driver_stopped"

\* ------------------------------------------------------------------ C21
Has(c, e) == \E k \in 1..Len(call[c].trail) : call[c].trail[k] = e

\* _scrape_pdf has ended for frame c (returned its dictionary or raised)
PdfEnded(c) == call[c].strategy = "pdf" /\ call[c].pc \in {"postprocess", "except", "returned"}

\* C21: the PDF fetch runs pdfplumber first; PyPDF2 is attempted if and only
\* if pdfplumber failed; the fetch fails if and only if the download failed
\* or both extractors failed; a successful result records in metadata.method
\* which extractor produced it.
C21_PdfFallback ==
    \A c \in Coros :
        /\ call[c].strategy = "pdf" /\ Len(call[c].trail) >= 2
              => call[c].trail[1] = "download"
                 /\ call[c].trail[2] \in {"pdfplumber", "pdfplumber_failed"}
        /\ PdfEnded(c) =>
              /\ (Has(c, "PyPDF2") \/ Has(c, "PyPDF2_failed")) <=> Has(c, "pdfplumber_failed")
              /\ (call[c].exc # "none")
                    <=> (Has(c, "download_failed")
                         \/ (Has(c, "pdfplumber_failed") /\ Has(c, "PyPDF2_failed")))
              /\ call[c].exc = "none" =>
                    /\ Has(c, "pdfplumber") => call[c].content.metadata.method = "pdf"
                    /\ Has(c, "PyPDF2") => call[c].content.metadata.method = "pdf_pypdf2"
                    /\ Has(c, "pdfplumber") \/ Has(c, "PyPDF2")
              /\ call[c].pc = "returned" /\ call[c].result.status = "success"
                    => call[c].result.metadata.method = call[c].content.metadata.method

\* a PDF fetch that succeeded through the second extractor after the first failed
C21_Witness ==
    \E c \in Coros :
        /\ call[c].pc = "returned" /\ call[c].strategy = "pdf"
        /\ call[c].trail = <<"download", "pdfplumber_failed", "PyPDF2">>
        /\ call[c].result.status = "success"
        /\ call[c].result.metadata.method = "pdf_pypdf2"

\* ------------------------------------------------------------------ C22
\* the record the handler answers with, next to the record scrape_url returned
\* to it (the frame of coroutine 0 keeps the value as returned)
Answered == handler.pc = "responded" /\ handler.result # NoResult

\* C22 as stated: a ScrapedContent is immutable once constructed: after
\* scrape_url has returned a record no operation of the core or of the
\* request handlers, the government-site handler included, changes any of its
\* fields, metadata included.
C22_Immutable ==
    /\ Answered => handler.result = call[0].result
    /\ batch.pc = "responded" =>
          \A k \in 1..Len(batch.valid_results) :
              \E i \in Tasks : gathered[i] = batch.valid_results[k]

\* C22 amended: the only write to a returned record is the one of the
\* government-site handler, which, when extract_acts is set and the record is
\* a success, replaces metadata['legal_references']; every other field and
\* every other metadata entry stays as scrape_url returned it, and POST
\* /scrape and the batch handler change nothing.
C22_OnlyGovLegalReferences ==
    /\ Answered =>
          LET r == call[0].result
              h == handler.result
          IN  /\ [h EXCEPT !.metadata = r.metadata] = r
              /\ h.metadata.method = r.metadata.method
              /\ h.metadata.keys \ {"legal_references"} = r.metadata.keys \ {"legal_references"}
              /\ h # r => /\ handler.route = "/scrape/government"
                          /\ handler.extract_acts
                          /\ r.status = "success"
              /\ handler.route = "/scrape/government" /\ handler.extract_acts
                 /\ r.status = "success"
                    => /\ "legal_references" \in h.metadata.keys
                       /\ h.metadata.legal_references
                             = ListOfSet(FoundPatterns(LegalPatterns, r.content))
    /\ batch.pc = "responded" =>
          \A k \in 1..Len(batch.valid_results) :
              \E i \in Tasks : gathered[i] = batch.valid_results[k]

\* the government-site handler has rewritten the metadata of a returned record
C22_Witness ==
    /\ Answered
    /\ handler.route = "/scrape/government"
    /\ handler.result.metadata # call[0].result.metadata
    /\ [handler.result EXCEPT !.metadata = call[0].result.metadata] = call[0].result

\* ------------------------------------------------------------------ C23
\* the four strategy functions of the dispatch
Strategies == {"requests", "selenium", "playwright", "pdf"}

\* C23 (as claimed): every ScrapedContent scrape_url produces, success or
\* error, has method_used in {requests, selenium, playwright, pdf}; it is
\* never "auto" and never an unrecognised string the caller supplied.
C23_MethodUsedConcrete ==
    \A r \in AllResults :
        r.kind = "ScrapedContent" => r.method_used \in Strategies

\* ------------------------------------------------------------------ C24
\* C24 (as claimed): POST /query with a valid query and simulate_failure unset
\* completes with 200 and the placeholder response: answer "N/A - model not
\* connected", risk_assessment "Coming soon", kg_traversal "N/A",
\* controller_iterations 0; no step of the pipeline turns it into an error.
C24_QueryAnswersPlaceholder ==
    (api.pc = "responded" /\ api.route = "/query"
     /\ ValidQuery(api.query) /\ ~api.simulate_failure)
        => /\ api.status_code = 200
           /\ api.body.answer = "N/A - model not connected"
           /\ api.body.risk_assessment = "Coming soon"
           /\ api.body.kg_traversal = "N/A"
           /\ api.body.controller_iterations = 0

\* ------------------------------------------------------------------ C25
\* C25 (as claimed): GET /document/{id} answers 404 for every id that does
\* not denote an existing document, not only for "N/A"; it never answers 200
\* with a document for an id that was never ingested.
C25_UnknownDocument404 ==
    (api.pc = "responded" /\ api.route = "/document" /\ api.document_id \notin Stored)
        => api.status_code = 404

\* ------------------------------------------------------------------ C26
\* a step in which coroutine c makes the network call of its strategy: the
\* GET of the static and the PDF strategy and driver.get run inside the step;
\* page.goto is started by the step that reaches "pw_goto"
NetworkStep(c, strategy) ==
    CASE strategy = "requests" -> call[c].pc = "rq_get" /\ call'[c] # call[c]
      [] strategy = "pdf" -> call[c].pc = "pdf_get" /\ call'[c] # call[c]
      [] strategy = "selenium" -> call[c].pc = "se_get" /\ call'[c] # call[c]
      [] OTHER -> call[c].pc = "pw_new_page" /\ call'[c].pc = "pw_goto"

\* the calls that are inside the fetch step of a strategy that never suspends
InBlockingFetch ==
    {c \in Coros : call[c].pc \in {"rq_get", "pdf_get", "pdf_plumber", "pdf_pypdf2",
                                   "pdf_wrap", "se_launch", "se_get", "se_extract",
                                   "se_finally"}}

\* C26 (as claimed): every network call of a fetch strategy (static GET,
\* browser navigation, PDF download) is a suspension point of its task: the
\* step that makes the call leaves the event loop to the other coroutines.
C26_NetworkCallsSuspend ==
    [][\A c \in Coros : \A strategy \in Strategies :
           NetworkStep(c, strategy) => running' # c]_vars

\* What the code does instead: a call inside a blocking fetch holds the event
\* loop, so no two such calls are ever inside their fetch step together.
BlockingFetchIsExclusive ==
    /\ Cardinality(InBlockingFetch) <= 1
    /\ \A c \in InBlockingFetch : running = c

\* ------------------------------------------------------------------ C27
\* call[c].client names the object the fetch of c talks through:
\* "self.session" is the attribute of the scraper instance (one object for
\* all calls); "driver" and "browser" are locals of the strategy function
\* (one object per call).
Shared(c, d) == call[c].client = "self.session" /\ call[d].client = "self.session"

\* C27 (as claimed): the calls of one batch share nothing but the semaphore:
\* the client or browser handle a fetch uses is created, owned and torn down
\* by that call alone, so no two calls of the batch use the same client.
C27_NoSharedClient ==
    \A i \in Tasks : \A j \in Tasks \ {i} : ~Shared(i, j)

\* C27 amended: the calls share the semaphore and the scraper's HTTP session:
\* every static fetch and every PDF download goes through self.session, which
\* no call creates or closes; a selenium driver or playwright browser is
\* created by the call that uses it, used by that call only, and gone when
\* the call has returned or raised.
C27_SessionSharedBrowsersOwned ==
    \A c \in Frames :
        /\ call[c].client = "self.session"
              <=> (call[c].strategy \in {"requests", "pdf"} /\ call[c].networked)
        /\ call[c].client = "driver" <=> (call[c].strategy = "selenium" /\ call[c].browser # "none")
        /\ call[c].client = "browser" <=> (call[c].strategy = "playwright" /\ call[c].browser # "none")
        /\ call[c].pc \in {"returned", "raised"} /\ call[c].client \in {"driver", "browser"}
              => call[c].browser \in {"closed", "driver_stopped"}

\* both tasks of a finished batch fetched through the one session
C27_Witness ==
    /\ batch.pc = "responded"
    /\ Len(batch.urls) = 2
    /\ Shared(1, 2)
    /\ Len(batch.valid_results) = 2

\* ------------------------------------------------------------------ C28
\* C28: with max_concurrent >= 1, when every call of scrape_url terminates,
\* every task that waits for a slot is admitted once a slot is free (or ends
\* by cancellation while it waits), the slot of a call is released on every
\* exit path (return, exception, cancellation), and scrape_multiple_urls
\* returns with all slots free: no deadlock and no starved URL.
C28_BatchCompletes ==
    /\ [](batch.pc = "responded" /\ batch.status_code = 200
            => /\ sem.value = batch.max_concurrent
               /\ sem.waiters = <<>>
               /\ \A i \in Tasks : ~call[i].holds)
    /\ (batch.pc = "gathering" /\ batch.max_concurrent >= 1) ~> (batch.pc = "responded")
    /\ \A i \in Tasks :
          (call[i].pc = "sem_wait" /\ batch.max_concurrent >= 1)
              ~> (call[i].holds \/ call[i].exc = "CancelledError")

\* a task that queued for the one slot has been woken by the release of the
\* task that held it
C28_Witness ==
    /\ batch.pc = "gathering"
    /\ batch.max_concurrent = 1
    /\ \E i \in Tasks : \E j \in Tasks \ {i} :
          /\ call[i].pc = "sem_wait" /\ call[i].io = "done"
          /\ call[j].pc = "t_done"

\* ------------------------------------------------------------------ C29
\* a batch that the handler passed on with max_concurrent = 0
ZeroCapBatch ==
    /\ batch.pc # "idle"
    /\ batch.max_concurrent = 0
    /\ batch.urls # <<>>

\* C29: the batch handler passes max_concurrent = 0 on without validating it;
\* scrape_multiple_urls then admits no call of scrape_url, every task waits on
\* the semaphore, and the batch does not return (it can end only when its
\* tasks are cancelled from outside, and then with no result).
C29_ZeroCapNeverReturns ==
    ZeroCapBatch =>
        /\ batch.status_code # 400
        /\ InFlight = {}
        /\ \A i \in Tasks : /\ ~call[i].holds
                            /\ call[i].result = NoResult
                            /\ gathered[i].kind # "ScrapedContent"
        /\ cancels = 0 =>
              /\ batch.pc = "gathering"
              /\ \A i \in 1..Len(batch.urls) : call[i].pc \in {"t_start", "sem_wait"}
        /\ batch.pc = "responded" => batch.valid_results = <<>>

\* every task of the batch waits on the semaphore and nothing is left to run
C29_Witness ==
    /\ ZeroCapBatch
    /\ batch.pc = "gathering"
    /\ Len(batch.urls) = MaxUrls
    /\ \A i \in 1..Len(batch.urls) : call[i].pc = "sem_wait" /\ call[i].io = "pending"
    /\ running = NoCo
    /\ ready = <<>>

\* ------------------------------------------------------------------ C30
\* the calls of scrape_url that invocation b has admitted and that have not ended
InCall(b) == {i \in Tasks : inv.run[b].task[i] = "in_call"}

\* C30: the admission cap is per invocation of scrape_multiple_urls: each
\* invocation counts its calls against the semaphore it created, and only
\* those; neither the calls of another invocation nor a direct call of
\* scrape_url take a slot from it.  So every invocation keeps its own cap
\* while the calls in flight on the shared scraper can exceed it.
C30_CapPerInvocation ==
    \A b \in Invocations :
        inv.run[b].pc = "gathering" =>
            /\ Cardinality(InCall(b)) <= inv.run[b].max_concurrent
            /\ Cardinality(InCall(b)) + inv.sem[SemOf(b)] = inv.run[b].max_concurrent

\* two invocations are each at their cap and a direct call runs next to them:
\* more calls are in flight than either cap allows
C30_Witness ==
    /\ \A b \in Invocations :
          /\ inv.run[b].pc = "gathering"
          /\ Cardinality(InCall(b)) = inv.run[b].max_concurrent
    /\ \A b \in Invocations :
          Cardinality(InCall(1)) + Cardinality(InCall(2)) > inv.run[b].max_concurrent
    /\ inv.direct = "in_call"

====
